---------------------------- MODULE Spec2Model ----------------------------
(***************************************************************************)
(* A model of the xtb-client runtime: the command channel (tagged          *)
(* requests, the correlation table, the listener task), the response       *)
(* promise (a hand written future over a tokio mutex), the stream channel  *)
(* (broadcast of push messages) and the subscription manager (reference    *)
(* counted subscriptions).                                                 *)
(*                                                                         *)
(* The module holds several specifications over one set of variables:     *)
(*   CmdSpec     the command channel        (connection.rs)                *)
(*   PromSpec    the response promise, step by step (connection.rs)        *)
(*   StreamSpec  the subscription manager and the stream channel           *)
(*               (client.rs, stream_connection.rs, listener.rs)            *)
(*   BcastSpec   the stream channel under a long run of push messages      *)
(*   CloseSpec   the end of the stream                                     *)
(*   TypedSpec   the typed request layer of the client (client.rs)         *)
(*   ConsumeSpec, SymbolSpec, OrderSpec, ArgsSpec                          *)
(*               the data streams and their subscriptions                  *)
(*   KeepaliveSpec  the two keepalive loops and the drop of the client     *)
(*   LockSpec    the locks of the command side, one step per acquisition   *)
(*   FilterSpec, ClassifySpec, CodeSpec                                    *)
(*               the pure functions: filters, frame classification and     *)
(*               error codes                                               *)
(* Each specification leaves the variables of the other parts at their    *)
(* initial values.                                                         *)
(***************************************************************************)
EXTENDS Integers, Sequences, FiniteSets, TLC

(***************************************************************************)
(* Bounds of the model.                                                    *)
(***************************************************************************)
\* send_command calls made on the connection (the tag counter stops here)
MaxTag == 2
\* frames the command server puts on the socket in one run
MaxFrames == 2
\* frames waiting on the command socket for the listener
MaxSocket == 1
\* polls of a promise made without a wake-up
MaxSpurious == 1
\* subscribe calls made on the client in one run
MaxSubscribes == 2
\* frames the stream server pushes in one run of StreamSpec
MaxPush == 2
\* stream pings sent in one run
MaxPings == 1
\* turns of the stream ping loop in one run of KeepaliveSpec
MaxKeepalive == 2
\* filters in the list of an All or an Any
MaxOps == 2
\* characters after the two letters of an error code string
MaxCodeTail == 4
\* frames waiting on the stream socket for the listener
MaxStrSocket == 1
\* in BcastSpec the server pushes this many frames more than the broadcast
\* channel holds
MaxOverrun == 1

\* channel(64usize): the capacity of the broadcast channel
ChannelCapacity == 64
\* the largest u8 (OtherError) and the largest u16 (InternalServerError)
U8Max == 255
U16Max == 65535

(***************************************************************************)
(* The command channel: state.                                             *)
(***************************************************************************)
VARIABLES
    tag_maker,              \* TagMaker.0, the counter behind the tags
    promise_state_by_tag,   \* the correlation table: tag -> promise id
    promises,               \* promise id -> the shared ResponsePromiseState
    sink,                   \* the requests written to the command socket, in order
    cmdSocket,              \* the frames the server sent, not yet read by the listener
    cmdOpen,                \* the command socket is open
    listenerAlive,          \* the task spawned by run_listener is in its loop
    caller,                 \* each task using the connection: where it is, its tag, its result
    framesSent,             \* frames the server has sent so far
    skipped                 \* frames the listener has skipped so far (parse error or no tag)

cmdVars == <<tag_maker, promise_state_by_tag, promises, sink, cmdSocket, cmdOpen,
             listenerAlive, caller, framesSent, skipped>>

(***************************************************************************)
(* The response promise, step by step: state.  Each promise has a state    *)
(* behind a tokio Mutex, written by the listener (set_response) and read   *)
(* by the task that awaits the promise (poll).                             *)
(***************************************************************************)
VARIABLES
    stLock,       \* the promise state's mutex: "free", "reader", "caller", or "handoff"
                  \* (released to the waiter queued by the caller's lock future)
    stResponse,   \* ResponsePromiseState.response: "none", "some", or "taken"
    stWaker,      \* ResponsePromiseState.waker is Some
    lockQueued,   \* the caller's lock future waits in the mutex's queue, with the task's waker
    notified,     \* the awaiting task is scheduled: the runtime will poll it
    pollPc,       \* where the awaiting task is in poll
    readerAt,     \* the promise whose state the listener holds locked: {p}, or NoPromise
    spurious      \* polls made so far without a wake-up (the promise polled as part of a larger future)

promVars == <<stLock, stResponse, stWaker, lockQueued, notified, pollPc, readerAt, spurious>>

(***************************************************************************)
(* The stream channel and the subscription manager: state.                 *)
(***************************************************************************)
VARIABLES
    stateLock,       \* the mutex around StreamManagerState: free, or the task holding it
    subscriptions,   \* StreamManagerState.subscriptions: key -> number of subscribers
    strSink,         \* the frames written to the stream socket, in order
    subCall,         \* the subscribe call in progress on the client, if any
    subCalls,        \* subscribe calls begun so far
    handles,         \* the DataStream handles made so far, in order of creation
    pingPc,          \* the stream ping task: "sleeping" or "sending"
    pings,           \* stream pings attempted so far
    clientAlive,     \* the XtbClient has not been dropped
    strSocket,       \* push frames sent by the server, not yet read by the listener
    strOpen,         \* the stream socket is open
    strListenerAlive,\* the task spawned by listen_for_stream_data is in its loop
    pushed,          \* frames pushed by the server so far
    bcast            \* every message sent on the broadcast channel, in order; the
                     \* channel retains the last ChannelCapacity of them

strVars == <<stateLock, subscriptions, strSink, subCall, subCalls, handles, pingPc, pings,
             clientAlive, strSocket, strOpen, strListenerAlive, pushed, bcast>>

(***************************************************************************)
(* The functions of the library that keep no state: the input of the last  *)
(* call made, and what it returned.                                        *)
(***************************************************************************)
VARIABLES
    input,     \* <<function, arguments...>> of the last call, or NoCallYet
    output     \* what that call returned

fnVars == <<input, output>>

(***************************************************************************)
(* The locks of the command side, one step per acquisition: state.         *)
(***************************************************************************)
VARIABLES
    held,        \* lock -> the task holding it, or "free"
    taskAt,      \* task -> where it is: what it does next, and for whom
    promiseAt,   \* caller -> how far the promise of its last call has come
    calls        \* the calls begun so far

lockVars == <<held, taskAt, promiseAt, calls>>

vars == <<cmdVars, promVars, strVars, fnVars, lockVars>>

\* The tasks that send commands on the connection (each takes the lock around
\* it): the owner of the client, whose typed operations borrow the client and
\* so run one at a time, and the keepalive task spawned by spawn_ping.
Callers == {"u1", "ping"}

NoTag == <<"none">>
NoData == <<"no_data">>
NoResponse == [kind |-> "None"]
NoResult == [kind |-> "NoResult"]

\* TagMaker::next formats the counter as "message_<n>".
TagOf(n) == <<"message_", n>>

\* The payload a caller sends: it names the caller, so that a response carrying
\* it can be told from a response to another caller's request.
PayloadOf(c) == <<"payload", c>>

(***************************************************************************)
(* Frames on the command socket.  A frame is what stream.next() yields: a  *)
(* websocket error, or a message that is text or not, whose text is JSON   *)
(* or not, whose JSON value is an object or not; an object is a function   *)
(* from the field names it has to their values.                            *)
(***************************************************************************)
WsError == [ws |-> "error"]
NotText == [ws |-> "message", text |-> FALSE]
NotJson == [ws |-> "message", text |-> TRUE, json |-> FALSE]
JsonFrame(v) == [ws |-> "message", text |-> TRUE, json |-> TRUE, value |-> v]
NotObject == [object |-> FALSE]
Object(fields) == [object |-> TRUE, fields |-> fields]

\* {"status": true, "customTag": tag, "returnData": data}, without the fields
\* given as NoTag / NoData
SuccessFrame(tag, data) ==
    JsonFrame(Object(
        [f \in {"status"} \cup (IF tag = NoTag THEN {} ELSE {"customTag"})
                          \cup (IF data = NoData THEN {} ELSE {"returnData"}) |->
            CASE f = "status" -> "true"
              [] f = "customTag" -> tag
              [] f = "returnData" -> data]))

\* {"status": false, "errorCode": code, "customTag": tag}; code "none" leaves
\* the errorCode out, "XX000" is a code XtbErrorCode::from_str does not know
FailureFrame(tag, code) ==
    JsonFrame(Object(
        [f \in {"status"} \cup (IF tag = NoTag THEN {} ELSE {"customTag"})
                          \cup (IF code = "none" THEN {} ELSE {"errorCode"}) |->
            CASE f = "status" -> "false"
              [] f = "customTag" -> tag
              [] f = "errorCode" -> code]))

\* The frames that process_message cannot make a response of.
UnparsableFrames ==
    { WsError, NotText, NotJson, JsonFrame(NotObject),
      JsonFrame(Object([f \in {"customTag"} |-> TagOf(1)])),
      JsonFrame(Object([f \in {"status", "customTag"} |->
                          IF f = "status" THEN "not_a_bool" ELSE TagOf(1)])),
      FailureFrame(TagOf(1), "none"), FailureFrame(TagOf(1), "XX000") }

\* Well-formed frames that carry no customTag.
UntaggedFrames == { SuccessFrame(NoTag, NoData), FailureFrame(NoTag, "BE001") }

(***************************************************************************)
(* process_message and process_message_value (connection.rs 124-150).      *)
(***************************************************************************)
SupportedErrorCode(code) == code \in {"BE001", "BE002", "EX000", "SE199"}

Failed(kind) == [kind |-> kind]

\* A JSON value that is not a string, where serde expects Option<String>.
NotAString == <<"not_a_string">>

\* serde: the fields of Response, a missing Option field is None; a customTag
\* that is not a string is an error
from_value_Response(v) ==
    IF "customTag" \in DOMAIN v.fields /\ v.fields["customTag"] = NotAString
    THEN Failed("DeserializationError")
    ELSE
    [kind |-> "Ok",
     status |-> TRUE,
     custom_tag |-> IF "customTag" \in DOMAIN v.fields THEN v.fields["customTag"] ELSE NoTag,
     return_data |-> IF "returnData" \in DOMAIN v.fields THEN v.fields["returnData"] ELSE NoData]

from_value_ErrorResponse_any_code(v) ==
    [kind |-> "OperationFailed",
     status |-> FALSE,
     error_code |-> IF "errorCode" \in DOMAIN v.fields THEN v.fields["errorCode"] ELSE "none",
     custom_tag |-> IF "customTag" \in DOMAIN v.fields THEN v.fields["customTag"] ELSE NoTag]

\* serde: the fields of ErrorResponse; error_code is required and parsed by
\* XtbErrorCode::from_str
from_value_ErrorResponse(v) ==
    IF /\ "errorCode" \in DOMAIN v.fields
       /\ SupportedErrorCode(v.fields["errorCode"])
       /\ ~("customTag" \in DOMAIN v.fields /\ v.fields["customTag"] = NotAString)
    THEN [kind |-> "OperationFailed",
          status |-> FALSE,
          error_code |-> v.fields["errorCode"],
          custom_tag |-> IF "customTag" \in DOMAIN v.fields THEN v.fields["customTag"] ELSE NoTag]
    ELSE Failed("DeserializationError")

process_message_value_lenient(v) ==
    IF ~v.object THEN Failed("MalformedResponse")
    ELSE IF "status" \notin DOMAIN v.fields THEN from_value_Response(v)
    ELSE IF v.fields["status"] \notin {"true", "false"} THEN Failed("MalformedResponse")
    ELSE IF v.fields["status"] = "true" THEN from_value_Response(v)
    ELSE from_value_ErrorResponse(v)

process_message_value(v) ==
    IF ~v.object THEN Failed("MalformedResponse")
    ELSE IF "status" \notin DOMAIN v.fields THEN Failed("MalformedResponse")
    ELSE IF v.fields["status"] \notin {"true", "false"} THEN Failed("MalformedResponse")
    ELSE IF v.fields["status"] = "true" THEN from_value_Response(v)
    ELSE from_value_ErrorResponse(v)

process_message(message) ==
    IF message.ws = "error" THEN Failed("ReceiveError")
    ELSE IF ~message.text THEN Failed("ReceivedInvalidData")
    ELSE IF ~message.json THEN Failed("DeserializationError")
    ELSE process_message_value(message.value)

\* The JSON objects process_message is called with: every choice of a status,
\* a customTag, a returnData and an errorCode, each of them there or not.
Absent == <<"absent">>
ObjectOf(status, tag, data, code) ==
    Object([f \in (IF status = "absent" THEN {} ELSE {"status"})
                  \cup (IF tag = Absent THEN {} ELSE {"customTag"})
                  \cup (IF data = Absent THEN {} ELSE {"returnData"})
                  \cup (IF code = "absent" THEN {} ELSE {"errorCode"}) |->
            CASE f = "status" -> status
              [] f = "customTag" -> tag
              [] f = "returnData" -> data
              [] f = "errorCode" -> code])

ClassifyFrames ==
    { WsError, NotText, NotJson, JsonFrame(NotObject) }
    \cup { JsonFrame(ObjectOf(status, tag, data, code)) :
              status \in {"absent", "true", "false", "not_a_bool"},
              tag \in {Absent, NotAString} \cup {TagOf(n) : n \in 1..MaxTag},
              data \in {Absent, PayloadOf("u1")},
              code \in {"absent", "BE001", "SE199", "XX000"} }

Classified_only_success(r) == r.kind = "Ok"

\* run_listener keeps Ok(response) and Err(OperationFailed(err_response)); any
\* other error is logged and the frame is skipped.
Classified(r) == r.kind \in {"Ok", "OperationFailed"}

(***************************************************************************)
(* The command channel: operations.                                        *)
(***************************************************************************)
CmdInit ==
    /\ tag_maker = 0
    /\ promise_state_by_tag = << >>
    /\ promises = << >>
    /\ sink = << >>
    /\ cmdSocket = << >>
    /\ cmdOpen = TRUE
    /\ listenerAlive = TRUE
    /\ caller = [c \in Callers |-> [pc |-> "idle", tag |-> NoTag, result |-> NoResult]]
    /\ framesSent = 0
    /\ skipped = 0

TagMaker_next_stuck(counter) == IF counter = 0 THEN 1 ELSE counter

\* TagMaker::next
TagMaker_next(counter) == counter + 1

\* BasicXtbConnection is used through &mut self: behind Arc<Mutex<..>> a
\* send_command runs from its start to its end with the connection locked.
connection_locked == \E c \in Callers : caller[c].pc = "sending"

\* HashMap::insert
insert(table, tag, pid) ==
    [t \in DOMAIN table \cup {tag} |-> IF t = tag THEN pid ELSE table[t]]

remove_nothing(table, tag) == table

\* HashMap::remove: the table without the key
remove(table, tag) == [t \in DOMAIN table \ {tag} |-> table[t]]

\* send_command up to its suspension on the socket write: build_request takes
\* the next tag, the request is serialized (a failure returns at once), the
\* promise is made and registered under the tag.
send_command_call(c, serializable) ==
    /\ ~connection_locked
    /\ tag_maker < MaxTag
    /\ tag_maker' = TagMaker_next(tag_maker)
    /\ LET tag == TagOf(tag_maker') IN
        IF ~serializable
        THEN /\ caller' = [caller EXCEPT ![c] =
                    [pc |-> "failed", tag |-> tag, result |-> Failed("SerializationError")]]
             /\ UNCHANGED <<promise_state_by_tag, promises>>
        ELSE /\ promises' = insert(promises, tag_maker', NoResponse)
             /\ promise_state_by_tag' = insert(promise_state_by_tag, tag, tag_maker')
             /\ caller' = [caller EXCEPT ![c] =
                    [pc |-> "sending", tag |-> tag, result |-> NoResult]]
    /\ UNCHANGED <<sink, cmdSocket, cmdOpen, listenerAlive, framesSent, skipped>>

\* send_command called by a caller that is not inside an earlier call.
send_command_begin(c, serializable) ==
    /\ caller[c].pc \in {"idle", "done", "failed"}
    /\ send_command_call(c, serializable)

\* What send_command leaves in the table when sink.send fails: the `?` returns
\* the error, nothing is taken out.
table_after_failed_send(table, tag) == table

\* send_command from the socket write on: the write succeeds (only on an open
\* socket) and the promise is returned, or it fails and the error is returned.
send_command_end(c, written) ==
    /\ caller[c].pc = "sending"
    /\ written => cmdOpen
    /\ IF written
       THEN /\ sink' = Append(sink, [customTag |-> caller[c].tag, arguments |-> PayloadOf(c)])
            /\ caller' = [caller EXCEPT ![c].pc = "awaiting"]
            /\ UNCHANGED promise_state_by_tag
       ELSE /\ caller' = [caller EXCEPT ![c].pc = "failed",
                                        ![c].result = Failed("CannotSendRequest")]
            /\ promise_state_by_tag' =
                   table_after_failed_send(promise_state_by_tag, caller[c].tag)
            /\ UNCHANGED sink
    /\ UNCHANGED <<tag_maker, promises, cmdSocket, cmdOpen, listenerAlive, framesSent, skipped>>

\* The promise a caller holds: the one made by its send_command.
PromiseOf(c) == caller[c].tag[2]

\* ResponsePromise::poll when the response is there: it is taken out of the
\* state and returned to the awaiting caller.
await_promise(c) ==
    /\ caller[c].pc = "awaiting"
    /\ promises[PromiseOf(c)] # NoResponse
    /\ caller' = [caller EXCEPT ![c].pc = "done", ![c].result = promises[PromiseOf(c)].response]
    /\ promises' = [promises EXCEPT ![PromiseOf(c)] = NoResponse]
    /\ UNCHANGED <<tag_maker, promise_state_by_tag, sink, cmdSocket, cmdOpen,
                   listenerAlive, framesSent, skipped>>

routed_key_oldest(table, tag) ==
    IF DOMAIN table = {} THEN tag
    ELSE CHOOSE k \in DOMAIN table : \A j \in DOMAIN table : table[k] <= table[j]

\* The entry of the table the listener takes for a response tagged `tag`:
\* lookup.remove(tag), keyed by the tag.
routed_key(table, tag) == tag

listener_stops_on_error(r) == Classified(r)

listener_stops_on_untagged(r) == ~(Classified(r) /\ r.custom_tag = NoTag)

\* Whether the listener stays in its loop after a frame with result r: every
\* branch of the loop body ends in `continue` or falls through to the next frame.
listener_continues(r) == TRUE

\* ResponsePromiseState::set_response
set_response(state, response) == [kind |-> "Some", response |-> response, after |-> skipped]

\* One turn of the loop of run_listener: a frame is read, classified and, when
\* it carries a tag with an entry in the table, the entry is removed and the
\* response set on its promise.
run_listener_step ==
    /\ listenerAlive
    /\ cmdSocket # << >>
    /\ cmdSocket' = Tail(cmdSocket)
    /\ LET r == process_message(Head(cmdSocket))
           key == routed_key(promise_state_by_tag, r.custom_tag)
       IN  /\ listenerAlive' = listener_continues(r)
           /\ IF ~Classified(r) \/ r.custom_tag = NoTag
              THEN /\ skipped' = skipped + 1
                   /\ UNCHANGED <<promise_state_by_tag, promises>>
              ELSE /\ UNCHANGED skipped
                   /\ IF key \in DOMAIN promise_state_by_tag
                      THEN /\ promise_state_by_tag' = remove(promise_state_by_tag, key)
                           /\ promises' = [promises EXCEPT ![promise_state_by_tag[key]] =
                                              set_response(@, r)]
                      ELSE UNCHANGED <<promise_state_by_tag, promises>>
    /\ UNCHANGED <<tag_maker, sink, cmdOpen, caller, framesSent>>

\* stream.next() yields None on a closed socket: the loop and the task end.
run_listener_exit ==
    /\ listenerAlive
    /\ cmdSocket = << >>
    /\ ~cmdOpen
    /\ listenerAlive' = FALSE
    /\ UNCHANGED <<tag_maker, promise_state_by_tag, promises, sink, cmdSocket, cmdOpen,
                   caller, framesSent, skipped>>

(***************************************************************************)
(* The keepalive task of the command channel (client.rs 918-944): lock the *)
(* connection, send the ping, await its promise, sleep, again.             *)
(***************************************************************************)
ping_loop_stops_on_error(ok) == ok

\* Whether a keepalive loop goes on after a ping that went well (ok) or not:
\* both arms of the match fall through to the sleep, an error is only logged.
ping_loop_continues(ok) == TRUE

abort_ignored(pc) == pc

\* JoinHandle::abort: the task is cancelled where it is suspended and is not
\* polled again.
abort(pc) == "aborted"

\* The last ping of the loop went well: it was written and answered by a
\* success.
last_ping_ok ==
    /\ caller["ping"].pc # "failed"
    /\ caller["ping"].pc = "done" => caller["ping"].result.kind = "Ok"

ping_turn_over_at_write(pc) == pc \in {"idle", "done", "failed", "awaiting"}

\* Whether the loop of spawn_ping is at the head of a turn: the task has just
\* started, or the send of the last turn failed, or its promise was awaited to
\* its end (`match response_promise.await`); the sleep follows either way.
ping_turn_over(pc) == pc \in {"idle", "done", "failed"}

\* One turn of the loop of spawn_ping up to the socket write.  The ping value
\* was serialized before the task was spawned.
spawn_ping_begin ==
    /\ ping_loop_continues(last_ping_ok)
    /\ ping_turn_over(caller["ping"].pc)
    /\ send_command_call("ping", TRUE)

\* The socket write of the ping: Ok(promise), or the error logged and None.
spawn_ping_end(written) == send_command_end("ping", written)

\* response_promise.await: Ok, or the error logged.
spawn_ping_await == await_promise("ping")

\* Drop for XtbClient, on the command channel: ping_join_handle.abort().  The
\* task suspended on the socket write is dropped with the lock it holds.
abort_ping ==
    /\ caller["ping"].pc # "aborted"
    /\ caller' = [caller EXCEPT !["ping"].pc = abort(@)]
    /\ UNCHANGED <<tag_maker, promise_state_by_tag, promises, sink, cmdSocket, cmdOpen,
                   listenerAlive, framesSent, skipped>>

(***************************************************************************)
(* The typed request layer of the client (client.rs 425-478).  A typed     *)
(* operation is send followed by the await of the promise; what it returns *)
(* is a function of how send_command ended and of the response set on the *)
(* promise.                                                                *)
(***************************************************************************)
\* What the promise hands to send_and_wait: the classified message, a
\* Response or an ErrorResponse (message_processing.rs, ProcessedMessage).
ProcessedMessage(r) ==
    IF r.kind = "Ok" THEN [kind |-> "Response", response |-> r]
                     ELSE [kind |-> "ErrorResponse", response |-> r]

\* A payload the server returns that is not of the shape of the declared
\* response type.
Undecodable(c) == <<"payload", c, "wrong_shape">>

\* from_value(data) into the declared response type
from_value_RESP(data) ==
    IF Len(data) = 2 /\ data[1] = "payload" THEN [ok |-> TRUE, value |-> <<"decoded", data[2]>>]
                                            ELSE [ok |-> FALSE]

\* RESP::default()
Default == <<"default">>

send_error_unexpected(kind) == "UnexpectedError"

\* XtbClient::send: the error of send_command as the client reports it
send_error(kind) ==
    CASE kind = "SerializationError" -> "SerializationFailed"
      [] kind = "CannotSendRequest" -> "CannotSendCommand"
      [] OTHER -> "UnexpectedError"

\* XtbClient::send_and_wait, from the response r the promise resolved with
send_and_wait(r) ==
    LET m == ProcessedMessage(r) IN
    IF m.kind = "Response"
    THEN IF m.response.return_data # NoData
         THEN IF from_value_RESP(m.response.return_data).ok
              THEN [kind |-> "Ok",
                    value |-> <<"Some", from_value_RESP(m.response.return_data).value>>]
              ELSE [kind |-> "DeserializationFailed"]
         ELSE [kind |-> "Ok", value |-> <<"None">>]
    ELSE [kind |-> "CommandFailed", error |-> m.response]

unwrap_or_error(result) ==
    IF result.kind # "Ok" THEN result
    ELSE IF result.value = <<"None">> THEN [kind |-> "DeserializationFailed"]
    ELSE [kind |-> "Ok", value |-> result.value[2]]

\* .map(|val| val.unwrap_or_default())
unwrap_or_default(result) ==
    IF result.kind # "Ok" THEN result
    ELSE IF result.value = <<"None">> THEN [kind |-> "Ok", value |-> Default]
    ELSE [kind |-> "Ok", value |-> result.value[2]]

\* XtbClient::send_and_wait_or_default
send_and_wait_or_default(r) == unwrap_or_default(send_and_wait(r))

\* What the typed operation of caller c returned, once it has ended: the
\* error of send, or the result of send_and_wait_or_default.
typed_outcome(c) ==
    IF caller[c].pc = "failed" THEN [kind |-> send_error(caller[c].result.kind)]
    ELSE IF caller[c].pc = "done" THEN send_and_wait_or_default(caller[c].result)
    ELSE [kind |-> "Pending"]

(***************************************************************************)
(* The command server (the environment).  It answers the requests it has   *)
(* received, in any order and possibly more than once, echoing the tag and *)
(* the payload; it may also send frames the client cannot use.             *)
(***************************************************************************)
ServerSends(frame) ==
    /\ cmdOpen
    /\ framesSent < MaxFrames
    /\ Len(cmdSocket) < MaxSocket
    /\ cmdSocket' = Append(cmdSocket, frame)
    /\ framesSent' = framesSent + 1
    /\ UNCHANGED <<tag_maker, promise_state_by_tag, promises, sink, cmdOpen,
                   listenerAlive, caller, skipped>>

ServerReplies ==
    \E i \in DOMAIN sink :
        \/ \E data \in {NoData, sink[i].arguments} :
              ServerSends(SuccessFrame(sink[i].customTag, data))
        \/ ServerSends(FailureFrame(sink[i].customTag, "BE001"))

\* The server answers a request with a payload of another shape than the
\* declared response type.
ServerRepliesUndecodable ==
    \E i \in DOMAIN sink :
        ServerSends(SuccessFrame(sink[i].customTag, Undecodable(sink[i].arguments[2])))

ServerSendsUnparsable == \E f \in UnparsableFrames : ServerSends(f)

ServerSendsUntagged == \E f \in UntaggedFrames : ServerSends(f)

ServerSendsUnknownTag == ServerSends(SuccessFrame(<<"message_", 0>>, NoData))

ServerCloses ==
    /\ cmdOpen
    /\ cmdOpen' = FALSE
    /\ UNCHANGED <<tag_maker, promise_state_by_tag, promises, sink, cmdSocket,
                   listenerAlive, caller, framesSent, skipped>>

(***************************************************************************)
(* The response promise, step by step (connection.rs 185-241).             *)
(***************************************************************************)
Promises == {1, 2}
NoPromise == {}

PromInit ==
    /\ stLock = [p \in Promises |-> "free"]
    /\ stResponse = [p \in Promises |-> "none"]
    /\ stWaker = [p \in Promises |-> FALSE]
    /\ lockQueued = [p \in Promises |-> FALSE]
    /\ notified = [p \in Promises |-> TRUE]    \* `promise.await` polls the promise at once
    /\ pollPc = [p \in Promises |-> "parked"]
    /\ readerAt = NoPromise
    /\ spurious = 0

\* The runtime polls the awaiting task: it was woken (or has just started to
\* await), or the promise is polled with no wake-up of its own.
poll_enter(p, woken) ==
    /\ pollPc[p] = "parked"
    /\ IF woken THEN notified[p] /\ UNCHANGED spurious
                ELSE ~notified[p] /\ spurious < MaxSpurious /\ spurious' = spurious + 1
    /\ notified' = [notified EXCEPT ![p] = FALSE]
    /\ pollPc' = [pollPc EXCEPT ![p] = "entered"]
    /\ UNCHANGED <<stLock, stResponse, stWaker, lockQueued, readerAt>>

\* pin!(self.state.lock()).poll(cx): the lock future is polled once.  A free
\* mutex is taken; a held one puts the future in the mutex's queue with the
\* task's waker and the poll of the lock is Pending.
poll_lock(p) ==
    /\ pollPc[p] = "entered"
    /\ IF stLock[p] = "free"
       THEN /\ stLock' = [stLock EXCEPT ![p] = "caller"]
            /\ pollPc' = [pollPc EXCEPT ![p] = "locked"]
            /\ UNCHANGED lockQueued
       ELSE /\ lockQueued' = [lockQueued EXCEPT ![p] = TRUE]
            /\ pollPc' = [pollPc EXCEPT ![p] = "lock_pending"]
            /\ UNCHANGED stLock
    /\ UNCHANGED <<stResponse, stWaker, notified, readerAt, spurious>>

\* What poll does about the waker when the lock future was Pending: nothing,
\* guard.waker is set only under the guard.
waker_after_lock_pending(w) == w

\* poll with the guard: the response is taken and returned, or the task's waker
\* is stored in the state; the guard is dropped and poll returns.
poll_with_guard(p) ==
    /\ pollPc[p] = "locked"
    /\ IF stResponse[p] = "some"
       THEN /\ stResponse' = [stResponse EXCEPT ![p] = "taken"]
            /\ pollPc' = [pollPc EXCEPT ![p] = "ready"]
            /\ UNCHANGED stWaker
       ELSE /\ stWaker' = [stWaker EXCEPT ![p] = TRUE]
            /\ pollPc' = [pollPc EXCEPT ![p] = "parked"]
            /\ UNCHANGED stResponse
    /\ stLock' = [stLock EXCEPT ![p] = "free"]
    /\ UNCHANGED <<lockQueued, notified, readerAt, spurious>>

\* poll returns Pending after a Pending lock: the lock future is a local of
\* poll and is dropped, which takes it out of the mutex's queue (and gives the
\* mutex back when it was handed to it meanwhile).
poll_lock_pending(p) ==
    /\ pollPc[p] = "lock_pending"
    /\ lockQueued' = [lockQueued EXCEPT ![p] = FALSE]
    /\ stLock' = [stLock EXCEPT ![p] = IF @ = "handoff" THEN "free" ELSE @]
    /\ stWaker' = [stWaker EXCEPT ![p] = waker_after_lock_pending(@)]
    /\ pollPc' = [pollPc EXCEPT ![p] = "parked"]
    /\ UNCHANGED <<stResponse, notified, readerAt, spurious>>

\* The listener: state.lock().await
reader_lock(p) ==
    /\ readerAt = NoPromise
    /\ stResponse[p] = "none"
    /\ stLock[p] = "free"
    /\ stLock' = [stLock EXCEPT ![p] = "reader"]
    /\ readerAt' = {p}
    /\ UNCHANGED <<stResponse, stWaker, lockQueued, notified, pollPc, spurious>>

\* The listener: set_response under the guard, then the guard is dropped.
\* set_response stores the response and wakes the waker stored in the state,
\* if any; the mutex, when released, is handed to a queued lock future, whose
\* waker is woken.
reader_set_response(p) ==
    /\ readerAt = {p}
    /\ stResponse' = [stResponse EXCEPT ![p] = "some"]
    /\ stWaker' = [stWaker EXCEPT ![p] = FALSE]
    /\ notified' = [notified EXCEPT ![p] = @ \/ stWaker[p] \/ lockQueued[p]]
    /\ stLock' = [stLock EXCEPT ![p] = IF lockQueued[p] THEN "handoff" ELSE "free"]
    /\ lockQueued' = [lockQueued EXCEPT ![p] = FALSE]
    /\ readerAt' = NoPromise
    /\ UNCHANGED <<pollPc, spurious>>

(***************************************************************************)
(* Push messages and filters (stream_connection.rs 160-239).               *)
(***************************************************************************)

\* StreamDataMessage {command, data}; data is an object whose fields are given
StreamDataMessage(command, fields) == [command |-> command, data |-> Object(fields)]

CandleMessage(symbol) ==
    StreamDataMessage("candle", [f \in {"symbol", "close"} |->
                                    IF f = "symbol" THEN symbol ELSE "1.0"])
\* a candle the typed layer cannot decode: its price is missing
BrokenCandleMessage(symbol) == StreamDataMessage("candle", [f \in {"symbol"} |-> symbol])
KeepAliveMessage == StreamDataMessage("keepAlive", [f \in {"timestamp"} |-> "t"])

Always == [op |-> "Always"]
Never == [op |-> "Never"]
Command(cmd) == [op |-> "Command", cmd |-> cmd]
FieldValue(name, value) == [op |-> "FieldValue", name |-> name, value |-> value]
All(ops) == [op |-> "All", ops |-> ops]
\* DataMessageFilter::Any (the name Any is taken by the TLC module)
AnyOf(ops) == [op |-> "Any", ops |-> ops]

RECURSIVE test_message(_, _)
RECURSIVE resolve_all(_, _)
RECURSIVE resolve_any(_, _)

resolve_field_value_missing_matches(msg, field_name, field_value) ==
    IF msg.data.object
    THEN IF field_name \in DOMAIN msg.data.fields
         THEN msg.data.fields[field_name] = field_value
         ELSE TRUE
    ELSE FALSE

\* resolve_field_value: data must be an object that has the field, equal to
\* the value
resolve_field_value(msg, field_name, field_value) ==
    IF msg.data.object
    THEN IF field_name \in DOMAIN msg.data.fields
         THEN msg.data.fields[field_name] = field_value
         ELSE FALSE
    ELSE FALSE

\* resolve_all: ops.iter().all(..), which stops at the first filter that does
\* not match
resolve_all(msg, ops) ==
    IF ops = << >> THEN TRUE
    ELSE IF ~test_message(Head(ops), msg) THEN FALSE
    ELSE resolve_all(msg, Tail(ops))

\* resolve_any: ops.iter().any(..), which stops at the first filter that
\* matches
resolve_any(msg, ops) ==
    IF ops = << >> THEN FALSE
    ELSE IF test_message(Head(ops), msg) THEN TRUE
    ELSE resolve_any(msg, Tail(ops))

\* DataMessageFilter::test_message
test_message(filter, msg) ==
    CASE filter.op = "Always" -> TRUE
      [] filter.op = "Never" -> FALSE
      [] filter.op = "Command" -> msg.command = filter.cmd
      [] filter.op = "All" -> resolve_all(msg, filter.ops)
      [] filter.op = "Any" -> resolve_any(msg, filter.ops)
      [] filter.op = "FieldValue" -> resolve_field_value(msg, filter.name, filter.value)

\* The sequences of at most n elements of S.
SeqUpTo(S, n) == UNION {[1..k -> S] : k \in 0..n}

\* The filters test_message is called with: the filters without a list, the
\* lists of the filter by symbol, and the lists of all of these.
LeafFilters ==
    { Always, Never, Command("candle"), Command("keepAlive"),
      FieldValue("symbol", "EURUSD"), FieldValue("close", "1.0") }
InnerFilters ==
    LET ops == SeqUpTo({FieldValue("symbol", "EURUSD")}, MaxOps)
    IN  {All(o) : o \in ops} \cup {AnyOf(o) : o \in ops}
Filters ==
    LET ops == SeqUpTo(LeafFilters \cup InnerFilters, MaxOps)
    IN  LeafFilters \cup {All(o) : o \in ops} \cup {AnyOf(o) : o \in ops}

\* The messages: candles, a candle without a price, a keepalive (no symbol),
\* and a message whose data is not an object.
FilterMessages ==
    { CandleMessage("EURUSD"), CandleMessage("GBPUSD"), BrokenCandleMessage("EURUSD"),
      KeepAliveMessage, [command |-> "candle", data |-> NotObject] }

NoCallYet == <<"none">>

FnInit ==
    /\ input = NoCallYet
    /\ output = NoCallYet

(***************************************************************************)
(* XtbErrorCode (api/api_errors.rs): the codes, FromStr and Display.  A    *)
(* string is the sequence of its characters.  A code with a variant of its *)
(* own is the pair of its two letters and its number; OtherError and       *)
(* InternalServerError carry their number.                                 *)
(***************************************************************************)
DigitChars == <<"0", "1", "2", "3", "4", "5", "6", "7", "8", "9">>
IsDigit(c) == \E i \in 1..10 : DigitChars[i] = c
DigitValue(c) == (CHOOSE i \in 1..10 : DigitChars[i] = c) - 1

\* the decimal digits of n, without padding
RECURSIVE DecimalOf(_)
DecimalOf(n) == IF n < 10 THEN <<DigitChars[n + 1]>>
                ELSE Append(DecimalOf(n \div 10), DigitChars[(n % 10) + 1])

\* format!("{:03}", n): zeros on the left up to a width of 3, never cut
RECURSIVE PadLeft(_)
PadLeft(digits) == IF Len(digits) >= 3 THEN digits ELSE PadLeft(<<"0">> \o digits)
Format03(n) == PadLeft(DecimalOf(n))

\* the value of a sequence of digits
RECURSIVE ValueOf(_)
ValueOf(digits) == IF digits = << >> THEN 0
                   ELSE 10 * ValueOf(SubSeq(digits, 1, Len(digits) - 1))
                        + DigitValue(digits[Len(digits)])

\* u8::from_str and u16::from_str: an optional + and at least one digit,
\* nothing else, and a value of the width
Unsigned_from_str(str, max) ==
    LET digits == IF str # << >> /\ Head(str) = "+" THEN Tail(str) ELSE str
    IN  IF digits = << >> THEN [ok |-> FALSE]
        ELSE IF \E i \in 1..Len(digits) : ~IsDigit(digits[i]) THEN [ok |-> FALSE]
        ELSE IF ValueOf(digits) > max THEN [ok |-> FALSE]
        ELSE [ok |-> TRUE, value |-> ValueOf(digits)]

\* the numbers of the codes BExxx and EXxxx that have a variant of their own
NumbersBE ==
    (0..14) \cup (16..19) \cup (94..98) \cup (101..106) \cup {110} \cup (115..118) \cup {200}
NumbersEX == 0..11
\* the numbers of the codes BE0xx that from_str hands to parse_other_error
NumbersOther == (20..37) \cup {99}

Code(letters, n) == [variant |-> letters, n |-> n]
OtherError(n) == [variant |-> "OtherError", n |-> n]
InternalServerError(n) == [variant |-> "InternalServerError", n |-> n]
UnsupportedErrorCode(str) == [ok |-> FALSE, error |-> <<"UnsupportedErrorCode", str>>]

starts_with(str, prefix) == Len(str) >= Len(prefix) /\ SubSeq(str, 1, Len(prefix)) = prefix

\* the string is one of the literals "<letters>ddd" with ddd among numbers
IsLiteral(str, letters, numbers) ==
    /\ Len(str) = 5
    /\ SubSeq(str, 1, 2) = letters
    /\ \A i \in 3..5 : IsDigit(str[i])
    /\ ValueOf(SubSeq(str, 3, 5)) \in numbers

parse_other_error(err_str) ==
    IF ~starts_with(err_str, <<"B", "E", "0">>) \/ Len(err_str) # 5
    THEN UnsupportedErrorCode(err_str)
    ELSE LET c == Unsigned_from_str(SubSeq(err_str, 4, Len(err_str)), U8Max)
         IN  IF c.ok THEN [ok |-> TRUE, code |-> OtherError(c.value)]
                     ELSE UnsupportedErrorCode(err_str)

parse_se_error(err_str) ==
    IF ~starts_with(err_str, <<"S", "E">>) \/ Len(err_str) # 5
    THEN UnsupportedErrorCode(err_str)
    ELSE LET c == Unsigned_from_str(SubSeq(err_str, 3, Len(err_str)), U16Max)
         IN  IF c.ok THEN [ok |-> TRUE, code |-> InternalServerError(c.value)]
                     ELSE UnsupportedErrorCode(err_str)

\* XtbErrorCode::from_str: the arms of the match, in their order
XtbErrorCode_from_str(str) ==
    IF IsLiteral(str, <<"B", "E">>, NumbersBE)
    THEN [ok |-> TRUE, code |-> Code("BE", ValueOf(SubSeq(str, 3, 5)))]
    ELSE IF IsLiteral(str, <<"E", "X">>, NumbersEX)
    THEN [ok |-> TRUE, code |-> Code("EX", ValueOf(SubSeq(str, 3, 5)))]
    ELSE IF IsLiteral(str, <<"B", "E">>, NumbersOther) THEN parse_other_error(str)
    ELSE IF starts_with(str, <<"S", "E">>) THEN parse_se_error(str)
    ELSE UnsupportedErrorCode(str)

\* Display for XtbErrorCode
Display(code) ==
    CASE code.variant = "BE" -> <<"B", "E">> \o Format03(code.n)
      [] code.variant = "EX" -> <<"E", "X">> \o Format03(code.n)
      [] code.variant = "OtherError" -> <<"B", "E">> \o Format03(code.n)
      [] code.variant = "InternalServerError" -> <<"S", "E">> \o Format03(code.n)

\* Every value of XtbErrorCode.
XtbErrorCodes ==
    {Code("BE", n) : n \in NumbersBE} \cup {Code("EX", n) : n \in NumbersEX}
    \cup {OtherError(n) : n \in 0..U8Max} \cup {InternalServerError(n) : n \in 0..U16Max}

\* The strings from_str is called with: nothing or two letters, and then up
\* to MaxCodeTail characters, digits or not.
CodeStrings ==
    { letters \o tail :
        letters \in {<< >>, <<"B", "E">>, <<"E", "X">>, <<"S", "E">>},
        tail \in SeqUpTo({"0", "1", "2", "9", "+", "A"}, MaxCodeTail) }

\* A call of XtbErrorCode::from_str.
call_from_str(str) ==
    /\ input' = <<"from_str", str>>
    /\ output' = XtbErrorCode_from_str(str)

\* A code is written with Display and the string read with from_str.
call_from_str_of_display(code) ==
    /\ input' = <<"from_str_of_display", code>>
    /\ output' = XtbErrorCode_from_str(Display(code))

\* A call of process_message.
call_process_message(message) ==
    /\ input' = <<"process_message", message>>
    /\ output' = process_message(message)

\* A call of test_message (one call is looked at in a run).
call_test_message(filter, msg) ==
    /\ input = NoCallYet
    /\ input' = <<"test_message", filter, msg>>
    /\ output' = test_message(filter, msg)

(***************************************************************************)
(* The typed subscribe operations of the client (client.rs 494-551,        *)
(* 668-677): the commands, the subscription key and the filter of each.    *)
(***************************************************************************)
\* The arguments of a stream command, an Option<Value>: None, or Some of a
\* JSON value of the given kind.  convert_data_to_value serialises the
\* argument structs of the typed operations, which gives objects.
None == <<"None">>
Some(kind) == <<"Some", kind>>

\* send_simple_stream_command, were subscribe_candles to call it
subscribe_candles_unscoped(symbol) ==
    [subscribe_command |-> "getCandles",
     unsubscribe_command |-> "stopCandles",
     subscription_key |-> <<"candle">>,
     filter |-> Command("candle"),
     data_command |-> "candle",
     required |-> {"symbol", "close"},
     subscribe_arguments |-> Some("Object"),
     unsubscribe_arguments |-> Some("Object")]

\* send_symbol_scoped_stream_command, as called by subscribe_candles
subscribe_candles(symbol) ==
    [subscribe_command |-> "getCandles",
     unsubscribe_command |-> "stopCandles",
     subscription_key |-> <<"candle", ".", symbol>>,
     filter |-> All(<<Command("candle"), FieldValue("symbol", symbol)>>),
     data_command |-> "candle",
     required |-> {"symbol", "close"},
     subscribe_arguments |-> Some("Object"),
     unsubscribe_arguments |-> Some("Object")]

\* send_simple_stream_command, as called by subscribe_keep_alive
subscribe_keep_alive ==
    [subscribe_command |-> "getKeepAlive",
     unsubscribe_command |-> "stopKeepAlive",
     subscription_key |-> <<"keepAlive">>,
     filter |-> Command("keepAlive"),
     data_command |-> "keepAlive",
     required |-> {"timestamp"},
     subscribe_arguments |-> Some("Object"),
     unsubscribe_arguments |-> Some("Object")]

\* The subscribe calls made in StreamSpec, and in BcastSpec.
StreamRequests == {subscribe_candles("EURUSD"), subscribe_keep_alive}
BcastRequests == {subscribe_keep_alive}

\* The frames the stream server pushes in StreamSpec: messages, and a frame
\* that is not the JSON of a StreamDataMessage.
NotAMessage == [json |-> FALSE]
PushFrame(msg) == [json |-> TRUE, message |-> msg]
StreamPushes ==
    { PushFrame(CandleMessage("EURUSD")), PushFrame(CandleMessage("GBPUSD")),
      PushFrame(BrokenCandleMessage("EURUSD")), PushFrame(KeepAliveMessage), NotAMessage }
BcastPushes == { PushFrame(KeepAliveMessage) }

\* The subscribe calls made in ConsumeSpec and SymbolSpec: candles of two
\* symbols.  The frames pushed: in SymbolSpec a candle of each symbol, in
\* ConsumeSpec also a candle that cannot be decoded.
Symbols == {"EURUSD", "GBPUSD"}
SymbolRequests == {subscribe_candles(symbol) : symbol \in Symbols}
SymbolPushes == {PushFrame(CandleMessage(symbol)) : symbol \in Symbols}
ConsumePushes == SymbolPushes \cup { PushFrame(BrokenCandleMessage("EURUSD")) }

(***************************************************************************)
(* The subscription manager (client.rs 724-895).                           *)
(***************************************************************************)
NoCall == [pc |-> "idle"]

prepare_arguments_lenient(arguments) == [ok |-> TRUE]

\* BasicXtbStreamConnection::prepare_arguments: None, an object and null are
\* accepted, any other value is InvalidArgumentsType.  assemble_and_send
\* calls it before it hands anything to the sink.
prepare_arguments(arguments) ==
    IF arguments \in {None, Some("Object"), Some("Null")}
    THEN [ok |-> TRUE]
    ELSE [ok |-> FALSE, error |-> "InvalidArgumentsType"]

\* StreamManager::subscribe and unsubscribe wrap the error of the connection
CannotSendStreamCommand(err) == <<"CannotSendStreamCommand", err>>

\* The values of the lock around StreamManagerState: free, or held by the
\* subscribe call, the ping task, or the unsubscribe task of handle h.
Unlocked == <<"free">>
HeldBy(task, h) == IF task = "unsubscribe" THEN <<task, h>> ELSE <<task>>

StreamInit ==
    /\ stateLock = Unlocked
    /\ subscriptions = << >>
    /\ strSink = << >>
    /\ subCall = NoCall
    /\ subCalls = 0
    /\ handles = << >>
    /\ pingPc = "sleeping"
    /\ pings = 0
    /\ clientAlive = TRUE
    /\ strSocket = << >>
    /\ strOpen = TRUE
    /\ strListenerAlive = TRUE
    /\ pushed = 0
    /\ bcast = << >>

Handles == DOMAIN handles

\* HashMap::entry(key).or_default(): the value under the key, 0 for a new key
entry_or_default(table, key) == IF key \in DOMAIN table THEN table[key] ELSE 0

\* The unsubscribe task of a dropped handle ended: it only decremented the
\* count ("released"), wrote the unsubscribe frame ("unsubscribed"), or its
\* write failed and the error was logged ("unsubscribe_failed").
Terminated(h) == handles[h].state \in {"released", "unsubscribed", "unsubscribe_failed"}

\* The StreamManagerState is shared (Arc) by the client, the ping task and
\* every DataStream and unsubscribe task; it lives as long as one of them.
manager_alive ==
    \/ clientAlive
    \/ \E h \in Handles : ~Terminated(h)

\* The broadcast channel is closed when no Sender is left.  One Sender is a
\* field of the connection, inside the StreamManagerState; the other is held
\* by the listener task, which the drop of the connection aborts.
channel_closed == ~manager_alive

\* The receivers of the broadcast channel: the stream made by a subscribe call
\* in progress, and the stream inside every DataStream not yet dropped.
Receivers ==
    (IF subCall.pc \in {"sending", "written"} THEN 1 ELSE 0)
    + Cardinality({h \in Handles : handles[h].state = "live"})

\* StreamManager::subscribe up to its suspension on the socket write: the
\* state is locked, the message stream is made (a new receiver of the
\* broadcast, placed at its end) and the subscribe frame is handed to the sink.
\* With arguments that prepare_arguments refuses the call returns the error
\* here: the stream and the lock guard are dropped, the count is not touched.
subscribe_begin(request, maxSubscribes) ==
    /\ clientAlive
    /\ subCall.pc = "idle"
    /\ subCalls < maxSubscribes
    /\ stateLock = Unlocked
    /\ LET prepared == prepare_arguments(request.subscribe_arguments)
       IN  IF prepared.ok
           THEN /\ stateLock' = HeldBy("subscribe", 0)
                /\ subCall' = [pc |-> "sending", request |-> request,
                               cursor |-> Len(bcast)]
           ELSE /\ stateLock' = Unlocked
                /\ subCall' = [pc |-> "idle", request |-> request,
                               returned |-> CannotSendStreamCommand(prepared.error)]
    /\ subCalls' = subCalls + 1
    /\ UNCHANGED <<subscriptions, strSink, handles, pingPc, pings, clientAlive,
                   strSocket, strOpen, strListenerAlive, pushed, bcast>>

\* Whether subscribe writes a subscribe frame for a key with `count`
\* subscribers: connection.subscribe is called on every path.
sends_subscribe_frame(count) == TRUE

subscriptions_not_counted(table, key, sent) == table

subscriptions_counted_before_send(table, key, sent) ==
    insert(table, key, entry_or_default(table, key) + 1)

\* The table as subscribe leaves it: the `?` after connection.subscribe
\* returns the error before the entry of the key is made and incremented.
subscriptions_after_subscribe(table, key, sent) ==
    IF sent THEN insert(table, key, entry_or_default(table, key) + 1) ELSE table

\* StreamManager::subscribe from the socket write on.  A failed write returns
\* the error (the stream is dropped); otherwise the count of the key is
\* incremented and the DataStream returned.  The lock is released at return.
subscribe_end(sent) ==
    /\ subCall.pc = "sending"
    /\ sent => strOpen
    /\ LET request == subCall.request
           key == request.subscription_key
           count == entry_or_default(subscriptions, key)
       IN  IF sent
           THEN /\ strSink' = IF sends_subscribe_frame(count)
                              THEN Append(strSink, [command |-> request.subscribe_command,
                                                    key |-> key])
                              ELSE strSink
                /\ handles' = Append(handles,
                                 [request |-> request, state |-> "live",
                                  cursor |-> subCall.cursor, pc |-> "idle", got |-> "nothing"])
           ELSE UNCHANGED <<strSink, handles>>
    /\ subscriptions' = subscriptions_after_subscribe(subscriptions,
                                           subCall.request.subscription_key, sent)
    /\ stateLock' = Unlocked
    /\ subCall' = IF sent THEN NoCall
                  ELSE [pc |-> "idle", request |-> subCall.request,
                        returned |-> CannotSendStreamCommand("CannotSend")]
    /\ UNCHANGED <<subCalls, pingPc, pings, clientAlive, strSocket, strOpen,
                   strListenerAlive, pushed, bcast>>

\* The same call in two steps, for the tasks that run beside it: the socket
\* write of connection.subscribe, after which the server has the frame, and
\* the rest of subscribe.  `written_at` and `returned_at` keep the length of
\* the broadcast at the two moments.
subscribe_write(sent) ==
    /\ subCall.pc = "sending"
    /\ sent => strOpen
    /\ IF sent
       THEN /\ strSink' = Append(strSink, [command |-> subCall.request.subscribe_command,
                                           key |-> subCall.request.subscription_key])
            /\ subCall' = [subCall EXCEPT !.pc = "written"] @@ [written_at |-> Len(bcast)]
            /\ UNCHANGED stateLock
       ELSE /\ subCall' = [pc |-> "idle", request |-> subCall.request,
                           returned |-> CannotSendStreamCommand("CannotSend")]
            /\ stateLock' = Unlocked
            /\ UNCHANGED strSink
    /\ UNCHANGED <<subscriptions, handles, subCalls, pingPc, pings, clientAlive, strSocket,
                   strOpen, strListenerAlive, pushed, bcast>>

stream_made_at_return(made, now) == now

\* The position of the receiver inside the DataStream that subscribe returns:
\* the stream was made by make_message_stream before connection.subscribe
\* was called, at the end of the broadcast as it was then.
stream_position(made, now) == made

subscribe_return ==
    /\ subCall.pc = "written"
    /\ subscriptions' = subscriptions_after_subscribe(subscriptions,
                                           subCall.request.subscription_key, TRUE)
    /\ handles' = Append(handles,
                     [request |-> subCall.request, state |-> "live",
                      cursor |-> stream_position(subCall.cursor, Len(bcast)),
                      pc |-> "idle", got |-> "nothing",
                      written_at |-> subCall.written_at, returned_at |-> Len(bcast)])
    /\ stateLock' = Unlocked
    /\ subCall' = NoCall
    /\ UNCHANGED <<strSink, subCalls, pingPc, pings, clientAlive, strSocket, strOpen,
                   strListenerAlive, pushed, bcast>>

drop_waits_for_lock(lock) == lock = Unlocked

\* Whether Drop::drop can run to its end, given the lock of the state: drop
\* clones the manager, the command, the arguments and the key and spawns a
\* task; the lock is taken inside the task, by unsubscribe.
drop_ready(lock) == TRUE

\* Drop for DataStream: a task is spawned that will call unsubscribe; the
\* message stream (the receiver) goes with the handle.
drop_DataStream(h) ==
    /\ h \in Handles
    /\ handles[h].state = "live"
    /\ handles[h].pc = "idle"
    /\ drop_ready(stateLock)
    /\ handles' = [handles EXCEPT ![h].state = "dropped"]
    /\ UNCHANGED <<stateLock, subscriptions, strSink, subCall, subCalls, pingPc, pings,
                   clientAlive, strSocket, strOpen, strListenerAlive, pushed, bcast>>

decrement_skipped(count) == count

\* The count unsubscribe leaves under the key: decremented unless already 0.
decremented(count) == IF count > 0 THEN count - 1 ELSE count

sends_unsubscribe_frame_always(count) == TRUE

\* Whether unsubscribe writes the unsubscribe frame, given the count it left
\* under the key: `if *entry == 0`.
sends_unsubscribe_frame(count) == count = 0

store_count_collected(table, key, count) ==
    IF count = 0 THEN remove(table, key) ELSE insert(table, key, count)

\* What unsubscribe leaves in the table for the key: the entry made by
\* entry(key).or_default() holds the count, 0 included; nothing is removed.
store_count(table, key, count) == insert(table, key, count)

\* StreamManager::unsubscribe, run by the task of a dropped handle, up to its
\* suspension on the socket write: the state is locked and the count of the
\* key decremented; at 0 the unsubscribe frame is handed to the sink, otherwise
\* the call is over.  Arguments that prepare_arguments refuses end the call
\* with the error, after the decrement and before the write.
unsubscribe_begin(h) ==
    /\ h \in Handles
    /\ handles[h].state = "dropped"
    /\ stateLock = Unlocked
    /\ LET key == handles[h].request.subscription_key
           count == decremented(entry_or_default(subscriptions, key))
       IN  /\ subscriptions' = store_count(subscriptions, key, count)
           /\ IF sends_unsubscribe_frame(count)
              THEN IF prepare_arguments(handles[h].request.unsubscribe_arguments).ok
                   THEN /\ stateLock' = HeldBy("unsubscribe", h)
                        /\ handles' = [handles EXCEPT ![h].state = "unsubscribing"]
                   ELSE /\ stateLock' = Unlocked
                        /\ handles' = [handles EXCEPT ![h].state = "unsubscribe_failed"]
              ELSE /\ stateLock' = Unlocked
                   /\ handles' = [handles EXCEPT ![h].state = "released"]
    /\ UNCHANGED <<strSink, subCall, subCalls, pingPc, pings, clientAlive,
                   strSocket, strOpen, strListenerAlive, pushed, bcast>>

unsubscribe_task_retries(sent) == IF sent THEN "unsubscribed" ELSE "dropped"

\* How the task spawned by the drop of a handle ends after the socket write:
\* Ok(()), or the error is logged by the `match result` and the task is over.
unsubscribe_task_ends(sent) == IF sent THEN "unsubscribed" ELSE "unsubscribe_failed"

\* StreamManager::unsubscribe from the socket write on: the frame is written,
\* or the write fails and the task logs the error.  The lock is released.
unsubscribe_end(h, sent) ==
    /\ h \in Handles
    /\ handles[h].state = "unsubscribing"
    /\ sent => strOpen
    /\ strSink' = IF sent
                  THEN Append(strSink, [command |-> handles[h].request.unsubscribe_command,
                                        key |-> handles[h].request.subscription_key])
                  ELSE strSink
    /\ stateLock' = Unlocked
    /\ handles' = [handles EXCEPT ![h].state = unsubscribe_task_ends(sent)]
    /\ UNCHANGED <<subscriptions, subCall, subCalls, pingPc, pings, clientAlive,
                   strSocket, strOpen, strListenerAlive, pushed, bcast>>

\* spawn_stream_ping, one turn of its loop up to the socket write: the state
\* is locked and the ping frame handed to the sink.
stream_ping_begin(maxPings) ==
    /\ clientAlive
    /\ pingPc = "sleeping"
    /\ pings < maxPings
    /\ stateLock = Unlocked
    /\ stateLock' = HeldBy("ping", 0)
    /\ pingPc' = "sending"
    /\ UNCHANGED <<subscriptions, strSink, subCall, subCalls, handles, pings, clientAlive,
                   strSocket, strOpen, strListenerAlive, pushed, bcast>>

subscriptions_after_counted_ping(table, sent) ==
    subscriptions_after_subscribe(table, <<"ping">>, sent)

\* The table after a stream ping: the task calls subscribe of the connection
\* inside the state, not subscribe of the manager, and touches no count.
subscriptions_after_ping(table, sent) == table

\* spawn_stream_ping from the socket write on: written or failed (logged), the
\* lock is released and the task sleeps.
stream_ping_end(sent) ==
    /\ pingPc = "sending"
    /\ sent => strOpen
    /\ strSink' = IF sent THEN Append(strSink, [command |-> "ping", key |-> <<"ping">>])
                          ELSE strSink
    /\ stateLock' = Unlocked
    /\ pingPc' = IF ping_loop_continues(sent) THEN "sleeping" ELSE "stopped"
    /\ pings' = pings + 1
    /\ subscriptions' = subscriptions_after_ping(subscriptions, sent)
    /\ UNCHANGED <<subCall, subCalls, handles, clientAlive,
                   strSocket, strOpen, strListenerAlive, pushed, bcast>>

\* Drop for XtbClient, on the stream channel: the stream ping task is aborted;
\* suspended on the socket write it is dropped there, which releases the
\* lock it holds.  The typed operations borrow the client, so none is in
\* progress.
drop_XtbClient ==
    /\ clientAlive
    /\ subCall.pc = "idle"
    /\ clientAlive' = FALSE
    /\ pingPc' = abort(pingPc)
    /\ stateLock' = IF stateLock = HeldBy("ping", 0) THEN Unlocked ELSE stateLock
    /\ UNCHANGED <<subscriptions, strSink, subCall, subCalls, handles, pings,
                   strSocket, strOpen, strListenerAlive, pushed, bcast>>

(***************************************************************************)
(* The stream channel (stream_connection.rs, listener.rs 64-85).           *)
(***************************************************************************)
sender_send_blocking(log, cursors) == \A c \in cursors : Len(log) - c < ChannelCapacity

\* Whether Sender::send can proceed: the send of the broadcast channel is not
\* async, it overwrites the oldest message and returns.
sender_send_ready(log, cursors) == TRUE

\* The positions of the receivers that hold messages back.
ReceiverCursors ==
    {handles[h].cursor : h \in {x \in Handles : handles[x].state = "live"}}
    \cup (IF subCall.pc \in {"sending", "written"} THEN {subCall.cursor} ELSE {})

handle_message_newest_first(log, message) ==
    IF Receivers = 0 THEN log ELSE <<message>> \o log

\* MessageHandler::handle_message: the message is sent on the broadcast; with
\* no receiver the send fails, which is logged, and the message is not kept.
handle_message(log, message) == IF Receivers = 0 THEN log ELSE Append(log, message)

\* One turn of the loop of listen_for_stream_data: a frame is read; a frame
\* that parses as a StreamDataMessage is handled, any other is logged.
listen_for_stream_data_step ==
    /\ strListenerAlive
    /\ manager_alive
    /\ strSocket # << >>
    /\ LET frame == Head(strSocket) IN
        IF frame.json
        THEN /\ sender_send_ready(bcast, ReceiverCursors)
             /\ bcast' = handle_message(bcast, frame.message)
        ELSE UNCHANGED bcast
    /\ strSocket' = Tail(strSocket)
    /\ UNCHANGED <<stateLock, subscriptions, strSink, subCall, subCalls, handles, pingPc,
                   pings, clientAlive, strOpen, strListenerAlive, pushed>>

\* The loop ends when the socket is closed (stream.next() yields None), and
\* the task is aborted when the connection is dropped.
listen_for_stream_data_exit ==
    /\ strListenerAlive
    /\ \/ strSocket = << >> /\ ~strOpen
       \/ ~manager_alive
    /\ strListenerAlive' = FALSE
    /\ UNCHANGED <<stateLock, subscriptions, strSink, subCall, subCalls, handles, pingPc,
                   pings, clientAlive, strSocket, strOpen, pushed, bcast>>

\* Receiver::recv at position `pos`: the receiver fell behind the retained
\* messages (Lagged, and it is moved to the oldest retained message), or the
\* next message is there, or the channel is closed, or the call waits.
recv(pos) ==
    IF Len(bcast) - pos > ChannelCapacity
       THEN [kind |-> "Lagged", next |-> Len(bcast) - ChannelCapacity]
    ELSE IF pos < Len(bcast) THEN [kind |-> "Ok", next |-> pos + 1, message |-> bcast[pos + 1]]
    ELSE IF channel_closed THEN [kind |-> "Closed", next |-> pos]
    ELSE [kind |-> "Empty", next |-> pos]

\* Result::ok(): Some(message) of Ok(message), None of any Err
ok(r) == IF r.kind = "Ok" THEN [some |-> TRUE, message |-> r.message] ELSE [some |-> FALSE]

\* DataStream::process_message: from_value(msg.data) into the declared type
decodes(request, message) ==
    /\ message.data.object
    /\ request.required \subseteq DOMAIN message.data.fields

\* The owner of a handle calls DataStream::next.
next_call(h) ==
    /\ h \in Handles
    /\ handles[h].state = "live"
    /\ handles[h].pc = "idle"
    /\ handles' = [handles EXCEPT ![h].pc = "waiting"]
    /\ UNCHANGED <<stateLock, subscriptions, strSink, subCall, subCalls, pingPc, pings,
                   clientAlive, strSocket, strOpen, strListenerAlive, pushed, bcast>>

handle_closed_on_error(state, got) == IF got = "decode_error" THEN "dropped" ELSE state

\* The handle after DataStream::next has returned `got`: next only maps the
\* message through process_message, the handle is as it was.
handle_after_next(state, got) == state

\* One turn of the loop of BasicMessageStream::next inside DataStream::next:
\* recv().await.ok() gives a message, which is returned (decoded) when the
\* filter passes it and skipped otherwise, or gives None, which ends the loop
\* and next returns Ok(None).
next_recv(h) ==
    /\ h \in Handles
    /\ handles[h].state = "live"
    /\ handles[h].pc = "waiting"
    /\ LET r == recv(handles[h].cursor)
           m == ok(r)
           got == IF ~m.some THEN "end_of_stream"
                  ELSE IF ~test_message(handles[h].request.filter, m.message)
                       THEN handles[h].got
                  ELSE IF decodes(handles[h].request, m.message) THEN "item"
                  ELSE "decode_error"
       IN  /\ r.kind # "Empty"
           /\ handles' = [handles EXCEPT
                  ![h].cursor = r.next,
                  ![h].pc = IF m.some /\ ~test_message(handles[h].request.filter, m.message)
                            THEN "waiting" ELSE "idle",
                  ![h].got = got,
                  ![h].state = IF m.some /\ ~test_message(handles[h].request.filter, m.message)
                               THEN @ ELSE handle_after_next(@, got)]
    /\ UNCHANGED <<stateLock, subscriptions, strSink, subCall, subCalls, pingPc, pings,
                   clientAlive, strSocket, strOpen, strListenerAlive, pushed, bcast>>

(***************************************************************************)
(* The stream server (the environment): it pushes frames, the data of a    *)
(* command only once a subscribe frame for it was written, and may close   *)
(* the socket.                                                             *)
(***************************************************************************)
server_push(frame, maxPush) ==
    /\ strOpen
    /\ pushed < maxPush
    /\ Len(strSocket) < MaxStrSocket
    /\ strSink # << >>
    /\ strSocket' = Append(strSocket, frame)
    /\ pushed' = pushed + 1
    /\ UNCHANGED <<stateLock, subscriptions, strSink, subCall, subCalls, handles, pingPc,
                   pings, clientAlive, strOpen, strListenerAlive, bcast>>

server_close_stream ==
    /\ strOpen
    /\ strOpen' = FALSE
    /\ UNCHANGED <<stateLock, subscriptions, strSink, subCall, subCalls, handles, pingPc,
                   pings, clientAlive, strSocket, strListenerAlive, pushed, bcast>>

(***************************************************************************)
(* The specifications.                                                     *)
(***************************************************************************)
\* A step of one part leaves the other parts alone.
(***************************************************************************)
(* The locks of the command side (client.rs 462-466, 918-944;              *)
(* connection.rs 89-119, 156-166, 228-240): the mutex around the           *)
(* connection, the mutex around the correlation table and the mutex of     *)
(* each promise state.  A task that finds a lock held waits where it is.   *)
(***************************************************************************)
Tasks == Callers \cup {"reader"}
StateLock(c) == IF c = "u1" THEN "state_u1" ELSE "state_ping"
Locks == {"connection", "table"} \cup {StateLock(c) : c \in Callers}
At(pc, c) == [pc |-> pc, of |-> c]

LockInit ==
    /\ held = [l \in Locks |-> "free"]
    /\ taskAt = [t \in Tasks |-> IF t = "reader" THEN At("next", "reader") ELSE At("idle", t)]
    /\ promiseAt = [c \in Callers |-> "none"]
    /\ calls = 0

\* XtbClient::send, or a turn of the loop of spawn_ping, is entered: the
\* next thing is connection.lock().
call_begin(c) ==
    /\ taskAt[c].pc = "idle"
    /\ calls < MaxTag
    /\ calls' = calls + 1
    /\ taskAt' = [taskAt EXCEPT ![c] = At("lock_connection", c)]
    /\ UNCHANGED <<held, promiseAt>>

\* connection.lock().await, then send_command up to
\* promise_state_by_tag.lock()
lock_connection(c) ==
    /\ taskAt[c].pc = "lock_connection"
    /\ held["connection"] = "free"
    /\ held' = [held EXCEPT !["connection"] = c]
    /\ taskAt' = [taskAt EXCEPT ![c] = At("lock_table", c)]
    /\ UNCHANGED <<promiseAt, calls>>

\* promise_state_by_tag.lock().await in send_command
lock_table(c) ==
    /\ taskAt[c].pc = "lock_table"
    /\ held["table"] = "free"
    /\ held' = [held EXCEPT !["table"] = c]
    /\ taskAt' = [taskAt EXCEPT ![c] = At("insert", c)]
    /\ UNCHANGED <<promiseAt, calls>>

\* .insert(tag, state); the guard of the table is a temporary of the
\* statement and is dropped at its end, before sink.send
insert_promise(c) ==
    /\ taskAt[c].pc = "insert"
    /\ held' = [held EXCEPT !["table"] = "free"]
    /\ promiseAt' = [promiseAt EXCEPT ![c] = "registered"]
    /\ taskAt' = [taskAt EXCEPT ![c] = At("sink_send", c)]
    /\ UNCHANGED calls

connection_guard_kept_by_ping(c) == IF c = "ping" THEN c ELSE "free"

\* The holder of the connection lock once send_command has returned: in
\* send the guard is dropped at the return; in spawn_ping it lives in the
\* block whose value is the promise and is dropped before the promise is
\* awaited.
connection_guard_after_send(c) == "free"

\* sink.send(message).await and the return of send_command: the promise, or
\* the error of the write
sink_send(c, written) ==
    /\ taskAt[c].pc = "sink_send"
    /\ held' = [held EXCEPT !["connection"] = connection_guard_after_send(c)]
    /\ promiseAt' = [promiseAt EXCEPT ![c] = IF written THEN "written" ELSE @]
    /\ taskAt' = [taskAt EXCEPT ![c] = At(IF written THEN "awaiting" ELSE "idle", c)]
    /\ UNCHANGED calls

\* ResponsePromise::poll on a state whose lock is free and whose response is
\* set: the lock is taken, the response taken, the guard dropped, all inside
\* the one call of poll.  A poll that finds the lock held or no response
\* returns Pending and changes nothing here.
poll_ready(c) ==
    /\ taskAt[c].pc = "awaiting"
    /\ held[StateLock(c)] = "free"
    /\ promiseAt[c] = "set"
    /\ promiseAt' = [promiseAt EXCEPT ![c] = "none"]
    /\ taskAt' = [taskAt EXCEPT ![c] = At("idle", c)]
    /\ UNCHANGED <<held, calls>>

\* run_listener: stream.next() yields the response to a request that was
\* written; it is classified and carries the tag of caller c.
reader_next(c) ==
    /\ taskAt["reader"].pc = "next"
    /\ promiseAt[c] = "written"
    /\ promiseAt' = [promiseAt EXCEPT ![c] = "read"]
    /\ taskAt' = [taskAt EXCEPT !["reader"] = At("lock_table", c)]
    /\ UNCHANGED <<held, calls>>

\* lookup.lock().await.remove(tag): the guard is a temporary of the scrutinee
\* of the `if let` and lives to the end of its block.
reader_lock_table ==
    /\ taskAt["reader"].pc = "lock_table"
    /\ held["table"] = "free"
    /\ held' = [held EXCEPT !["table"] = "reader"]
    /\ taskAt' = [taskAt EXCEPT !["reader"].pc = "lock_state"]
    /\ UNCHANGED <<promiseAt, calls>>

\* state.lock().await, with the table still locked
reader_lock_state ==
    /\ taskAt["reader"].pc = "lock_state"
    /\ held[StateLock(taskAt["reader"].of)] = "free"
    /\ held' = [held EXCEPT ![StateLock(taskAt["reader"].of)] = "reader"]
    /\ taskAt' = [taskAt EXCEPT !["reader"].pc = "set_response"]
    /\ UNCHANGED <<promiseAt, calls>>

\* set_response(..), and the end of the `if let`: both guards are dropped
reader_set_response_unlock ==
    /\ taskAt["reader"].pc = "set_response"
    /\ promiseAt' = [promiseAt EXCEPT ![taskAt["reader"].of] = "set"]
    /\ held' = [held EXCEPT ![StateLock(taskAt["reader"].of)] = "free", !["table"] = "free"]
    /\ taskAt' = [taskAt EXCEPT !["reader"] = At("next", "reader")]
    /\ UNCHANGED calls

CmdStep(A) == A /\ UNCHANGED <<promVars, strVars, fnVars, lockVars>>
PromStep(A) == A /\ UNCHANGED <<cmdVars, strVars, fnVars, lockVars>>
StreamStep(A) == A /\ UNCHANGED <<cmdVars, promVars, fnVars, lockVars>>
FnStep(A) == A /\ UNCHANGED <<cmdVars, promVars, strVars, lockVars>>
LockStep(A) == A /\ UNCHANGED <<cmdVars, promVars, strVars, fnVars>>

Init == CmdInit /\ PromInit /\ StreamInit /\ FnInit /\ LockInit

\* The owner of the client and the keepalive task call on one connection
\* while the listener routes the responses.
LockNext ==
    \/ \E c \in Callers : LockStep(call_begin(c))
    \/ \E c \in Callers : LockStep(lock_connection(c))
    \/ \E c \in Callers : LockStep(lock_table(c))
    \/ \E c \in Callers : LockStep(insert_promise(c))
    \/ \E c \in Callers, written \in BOOLEAN : LockStep(sink_send(c, written))
    \/ \E c \in Callers : LockStep(poll_ready(c))
    \/ \E c \in Callers : LockStep(reader_next(c))
    \/ LockStep(reader_lock_table)
    \/ LockStep(reader_lock_state)
    \/ LockStep(reader_set_response_unlock)

LockSpec == Init /\ [][LockNext]_vars

CmdNext ==
    \/ \E c \in Callers, serializable \in BOOLEAN : CmdStep(send_command_begin(c, serializable))
    \/ \E c \in Callers, written \in BOOLEAN : CmdStep(send_command_end(c, written))
    \/ \E c \in Callers : CmdStep(await_promise(c))
    \/ CmdStep(run_listener_step)
    \/ CmdStep(run_listener_exit)
    \/ CmdStep(ServerReplies)
    \/ CmdStep(ServerSendsUnparsable)
    \/ CmdStep(ServerSendsUntagged)
    \/ CmdStep(ServerSendsUnknownTag)
    \/ CmdStep(ServerCloses)

CmdSpec == Init /\ [][CmdNext]_vars

\* The typed requests of the client on the command channel: every request is
\* answered, if at all, by a success with or without a payload, a payload of
\* the wrong shape, or a failure.
TypedNext ==
    \/ \E c \in Callers, serializable \in BOOLEAN : CmdStep(send_command_begin(c, serializable))
    \/ \E c \in Callers, written \in BOOLEAN : CmdStep(send_command_end(c, written))
    \/ \E c \in Callers : CmdStep(await_promise(c))
    \/ CmdStep(run_listener_step)
    \/ CmdStep(ServerReplies)
    \/ CmdStep(ServerRepliesUndecodable)
    \/ CmdStep(ServerCloses)

TypedSpec == Init /\ [][TypedNext]_vars

\* Drop for XtbClient: both ping tasks are aborted.
Drop_for_XtbClient == abort_ping /\ drop_XtbClient /\ UNCHANGED <<promVars, fnVars, lockVars>>

\* The two keepalive loops of a client that does nothing else, on sockets
\* the servers may close, until the client is dropped.
KeepaliveNext ==
    \/ CmdStep(spawn_ping_begin)
    \/ \E written \in BOOLEAN : CmdStep(spawn_ping_end(written))
    \/ CmdStep(spawn_ping_await)
    \/ CmdStep(run_listener_step)
    \/ CmdStep(ServerReplies)
    \/ CmdStep(ServerCloses)
    \/ StreamStep(stream_ping_begin(MaxKeepalive))
    \/ \E sent \in BOOLEAN : StreamStep(stream_ping_end(sent))
    \/ StreamStep(server_close_stream)
    \/ Drop_for_XtbClient

KeepaliveSpec == Init /\ [][KeepaliveNext]_vars

\* The filter evaluator, called with every filter and message.
FilterNext ==
    /\ input = NoCallYet
    /\ \E filter \in Filters, msg \in FilterMessages : FnStep(call_test_message(filter, msg))

FilterSpec == Init /\ [][FilterNext]_vars

\* The classification of frames, called with every frame.
ClassifyNext ==
    /\ input = NoCallYet
    /\ \E message \in ClassifyFrames : FnStep(call_process_message(message))

ClassifySpec == Init /\ [][ClassifyNext]_vars

\* The error codes: every string is parsed, every code written and parsed.
CodeNext ==
    \/ input = NoCallYet /\ \E str \in CodeStrings : FnStep(call_from_str(str))
    \/ input = NoCallYet /\ \E code \in XtbErrorCodes : FnStep(call_from_str_of_display(code))

CodeSpec == Init /\ [][CodeNext]_vars

PromNext ==
    \/ \E p \in Promises, woken \in BOOLEAN : PromStep(poll_enter(p, woken))
    \/ \E p \in Promises : PromStep(poll_lock(p))
    \/ \E p \in Promises : PromStep(poll_with_guard(p))
    \/ \E p \in Promises : PromStep(poll_lock_pending(p))
    \/ \E p \in Promises : PromStep(reader_lock(p))
    \/ \E p \in Promises : PromStep(reader_set_response(p))

\* The runtime polls a woken task and runs a started poll to its end; the
\* listener takes a free lock and, once it holds it, sets the response.  A poll
\* without a wake-up is never owed.
PromFairness ==
    /\ \A p \in Promises : WF_vars(PromStep(poll_enter(p, TRUE)))
    /\ \A p \in Promises : WF_vars(PromStep(poll_lock(p)))
    /\ \A p \in Promises : WF_vars(PromStep(poll_with_guard(p)))
    /\ \A p \in Promises : WF_vars(PromStep(poll_lock_pending(p)))
    /\ \A p \in Promises : WF_vars(PromStep(reader_lock(p)))
    /\ \A p \in Promises : WF_vars(PromStep(reader_set_response(p)))

PromSpec == Init /\ [][PromNext]_vars /\ PromFairness

\* The subscription manager: subscribe calls, drops of handles and of the
\* client, the unsubscribe tasks and the ping task, on a socket the server may
\* close.
StreamNext ==
    \/ \E r \in StreamRequests : StreamStep(subscribe_begin(r, MaxSubscribes))
    \/ \E sent \in BOOLEAN : StreamStep(subscribe_end(sent))
    \/ \E h \in Handles : StreamStep(drop_DataStream(h))
    \/ \E h \in Handles : StreamStep(unsubscribe_begin(h))
    \/ \E h \in Handles, sent \in BOOLEAN : StreamStep(unsubscribe_end(h, sent))
    \/ StreamStep(stream_ping_begin(MaxPings))
    \/ \E sent \in BOOLEAN : StreamStep(stream_ping_end(sent))
    \/ StreamStep(drop_XtbClient)
    \/ StreamStep(server_close_stream)

StreamSpec == Init /\ [][StreamNext]_vars

\* The stream channel under a long run of one feed on an open socket: the
\* subscriptions are made first and the handles are kept; the owner of the
\* first handle calls next, the owners of the others never do.
BcastNext ==
    \/ \E r \in BcastRequests : StreamStep(subscribe_begin(r, MaxSubscribes))
    \/ \E sent \in BOOLEAN : StreamStep(subscribe_end(sent))
    \/ StreamStep(listen_for_stream_data_step)
    \/ StreamStep(next_call(1))
    \/ StreamStep(next_recv(1))
    \/ /\ subCalls = MaxSubscribes
       /\ subCall.pc = "idle"
       /\ \E f \in BcastPushes : StreamStep(server_push(f, ChannelCapacity + MaxOverrun))

BcastSpec == Init /\ [][BcastNext]_vars

\* The feeds of two symbols on an open socket whose writes succeed: handles
\* are made and kept, and consumed while the server pushes candles.
ConsumeNext ==
    \/ \E r \in SymbolRequests : StreamStep(subscribe_begin(r, MaxSubscribes))
    \/ StreamStep(subscribe_end(TRUE))
    \/ StreamStep(listen_for_stream_data_step)
    \/ \E h \in Handles : StreamStep(next_call(h))
    \/ \E h \in Handles : StreamStep(next_recv(h))
    \/ \E f \in ConsumePushes : StreamStep(server_push(f, MaxPush))

ConsumeSpec == Init /\ [][ConsumeNext]_vars

\* The feeds of two symbols on an open socket whose writes succeed: handles
\* are made, consumed and dropped while the server pushes candles.
SymbolNext ==
    \/ \E r \in SymbolRequests : StreamStep(subscribe_begin(r, MaxSubscribes))
    \/ StreamStep(subscribe_end(TRUE))
    \/ \E h \in Handles : StreamStep(drop_DataStream(h))
    \/ \E h \in Handles : StreamStep(unsubscribe_begin(h))
    \/ \E h \in Handles : StreamStep(unsubscribe_end(h, TRUE))
    \/ StreamStep(listen_for_stream_data_step)
    \/ \E h \in Handles : StreamStep(next_call(h))
    \/ \E h \in Handles : StreamStep(next_recv(h))
    \/ \E f \in SymbolPushes : StreamStep(server_push(f, MaxPush))

SymbolSpec == Init /\ [][SymbolNext]_vars

\* Subscribe calls beside the listener: the server pushes as soon as it has
\* a subscribe frame, the listener broadcasts while subscribe is still on its
\* way back from the write.
OrderPushes == { PushFrame(KeepAliveMessage), PushFrame(CandleMessage("EURUSD")) }

OrderNext ==
    \/ \E r \in BcastRequests : StreamStep(subscribe_begin(r, MaxSubscribes))
    \/ \E sent \in BOOLEAN : StreamStep(subscribe_write(sent))
    \/ StreamStep(subscribe_return)
    \/ StreamStep(listen_for_stream_data_step)
    \/ \E h \in Handles : StreamStep(next_call(h))
    \/ \E h \in Handles : StreamStep(next_recv(h))
    \/ \E f \in OrderPushes : StreamStep(server_push(f, MaxPush))

OrderSpec == Init /\ [][OrderNext]_vars

\* StreamManager::subscribe called directly (it is public) with arguments of
\* every kind, on an open socket whose writes succeed.
Arguments == {None, Some("Null"), Some("Object"), Some("Array"), Some("String")}
ArgsRequests ==
    { [subscribe_keep_alive EXCEPT !.subscribe_arguments = sa,
                                   !.unsubscribe_arguments = ua] :
        sa \in Arguments, ua \in {Some("Object"), Some("Array")} }

ArgsNext ==
    \/ \E r \in ArgsRequests : StreamStep(subscribe_begin(r, MaxSubscribes))
    \/ StreamStep(subscribe_end(TRUE))
    \/ \E h \in Handles : StreamStep(drop_DataStream(h))
    \/ \E h \in Handles : StreamStep(unsubscribe_begin(h))
    \/ \E h \in Handles : StreamStep(unsubscribe_end(h, TRUE))

ArgsSpec == Init /\ [][ArgsNext]_vars

\* The end of the stream: the feeds are consumed while the server pushes and
\* then closes the socket, and the client is dropped at some point.
CloseNext ==
    \/ \E r \in StreamRequests : StreamStep(subscribe_begin(r, MaxSubscribes))
    \/ \E sent \in BOOLEAN : StreamStep(subscribe_end(sent))
    \/ StreamStep(drop_XtbClient)
    \/ StreamStep(listen_for_stream_data_step)
    \/ StreamStep(listen_for_stream_data_exit)
    \/ \E h \in Handles : StreamStep(next_call(h))
    \/ \E h \in Handles : StreamStep(next_recv(h))
    \/ \E f \in StreamPushes : StreamStep(server_push(f, MaxPush))
    \/ StreamStep(server_close_stream)

\* The runtime runs every task that can run: the listener reads the frames
\* that arrived and sees the socket closed, a subscribe call returns, the
\* owner of a handle calls next again and again, and a call of next goes on
\* once its recv has something to return.
CloseFairness ==
    /\ WF_vars(StreamStep(listen_for_stream_data_step))
    /\ WF_vars(StreamStep(listen_for_stream_data_exit))
    /\ \A h \in 1..MaxSubscribes : WF_vars(StreamStep(next_call(h)))
    /\ \A h \in 1..MaxSubscribes : WF_vars(StreamStep(next_recv(h)))
    /\ WF_vars(\E sent \in BOOLEAN : StreamStep(subscribe_end(sent)))

CloseSpec == Init /\ [][CloseNext]_vars /\ CloseFairness

(***************************************************************************)
(* The claims.                                                             *)
(***************************************************************************)

\* C1: each caller's promise resolves with the response whose customTag is
\* the tag of that caller's own request, whatever the order of the replies:
\* a promise only ever holds a response carrying its own tag, and a caller
\* that got its result got one with its own tag and, if data came back, its
\* own payload.
C1_OwnResponse ==
    /\ \A p \in DOMAIN promises :
          promises[p] # NoResponse => promises[p].response.custom_tag = TagOf(p)
    /\ \A c \in Callers :
          caller[c].pc = "done" =>
             /\ caller[c].result.custom_tag = caller[c].tag
             /\ caller[c].result.kind = "Ok" =>
                   caller[c].result.return_data \in {NoData, PayloadOf(c)}

\* Two requests are in flight and the later one was answered first: its caller
\* has its own payload while the earlier request is still in the table.
C1_AnsweredOutOfOrder ==
    \E a, b \in Callers :
        /\ caller[a].pc = "awaiting"
        /\ caller[a].tag = TagOf(1)
        /\ caller[a].tag \in DOMAIN promise_state_by_tag
        /\ caller[b].pc = "done"
        /\ caller[b].tag = TagOf(2)
        /\ caller[b].result.kind = "Ok"
        /\ caller[b].result.return_data = PayloadOf(b)

\* C2: when send_command fails, by serialization or by the write on the
\* socket, the correlation table has no entry for the tag of that call.
C2_NoEntryAfterFailedSend ==
    \A c \in Callers :
        caller[c].pc = "failed" => caller[c].tag \notin DOMAIN promise_state_by_tag

\* C3: a caller awaiting a ResponsePromise eventually obtains the response
\* once the listener has called set_response for it, whatever the interleaving
\* of the caller's poll and the listener's set_response.
C3_EventuallyObtains ==
    \A p \in Promises : (stResponse[p] = "some") ~> (pollPc[p] = "ready")

\* The control frames written for a key, in order.
FramesOf(key) == SelectSeq(strSink, LAMBDA f : f.key = key)
HandlesOf(key) == {h \in Handles : handles[h].request.subscription_key = key}
Keys == {r.subscription_key : r \in StreamRequests}
IsUnsubscribe(f) == f.command \in {r.unsubscribe_command : r \in StreamRequests}

\* C4: a subscribe call for a key that has subscribers already writes no
\* subscribe frame, so N subscribers of one key cost one frame.
C4_NoDuplicateSubscribeFrame ==
    [][ (/\ subCall.pc = "sending"
         /\ entry_or_default(subscriptions, subCall.request.subscription_key) > 0)
        => strSink' = strSink ]_vars

\* C5: the handles of one key being dropped, the unsubscribe frame is written
\* once, and only when the count of the key has come to 0: the task that
\* writes it does so at count 0, with every other handle of the key dropped
\* and accounted for; an unsubscribe frame of a key always follows a subscribe
\* frame of that key, never another unsubscribe frame; and once every handle
\* of the key is accounted for, the last task has written, or tried to write,
\* the frame.
C5_OneUnsubscribeAtZero ==
    \A k \in Keys :
        /\ \A h \in HandlesOf(k) :
              handles[h].state = "unsubscribing" =>
                 /\ entry_or_default(subscriptions, k) = 0
                 /\ \A g \in HandlesOf(k) \ {h} : Terminated(g)
        /\ \A i \in DOMAIN FramesOf(k) :
              IsUnsubscribe(FramesOf(k)[i]) =>
                 /\ i > 1
                 /\ ~IsUnsubscribe(FramesOf(k)[i - 1])
        /\ Cardinality({h \in HandlesOf(k) : handles[h].state = "unsubscribed"})
             = Len(SelectSeq(FramesOf(k), IsUnsubscribe))
        /\ (HandlesOf(k) # {} /\ \A h \in HandlesOf(k) : Terminated(h)) =>
              \E h \in HandlesOf(k) :
                  handles[h].state \in {"unsubscribed", "unsubscribe_failed"}

\* Two handles of one key were live together and both were dropped: the first
\* task only decremented, the second wrote the one unsubscribe frame.
C5_TwoDropsOneFrame ==
    \E k \in Keys :
        /\ Cardinality(HandlesOf(k)) = 2
        /\ \E h, g \in HandlesOf(k) :
              /\ handles[h].state = "released"
              /\ handles[g].state = "unsubscribed"
        /\ Len(FramesOf(k)) = 3
        /\ IsUnsubscribe(FramesOf(k)[3])

\* C6: under any interleaving of subscribe calls and unsubscribe tasks, the
\* count of a key is the number of subscribe calls that succeeded for it less
\* the number of unsubscribe calls processed for it (that is, the number of
\* its handles whose unsubscribe has not run yet), and it is never negative.
C6_RefcountExact ==
    \A k \in Keys :
        /\ entry_or_default(subscriptions, k) \in Nat
        /\ entry_or_default(subscriptions, k) =
              Cardinality(HandlesOf(k))
              - Cardinality({h \in HandlesOf(k) : handles[h].state \notin {"live", "dropped"}})

\* Two subscribe calls succeeded for a key and one unsubscribe was processed:
\* one handle is accounted for, the other is dropped with its task still to
\* run, and the count is 1.
C6_TwoSubscribedOneProcessed ==
    \E k \in Keys :
        /\ entry_or_default(subscriptions, k) = 1
        /\ \E h, g \in HandlesOf(k) :
              /\ handles[h].state = "released"
              /\ handles[g].state = "dropped"

\* C7: DataStream::next returns Ok(None) only when the broadcast channel is
\* closed for good; a consumer that fell behind is not told the stream ended.
C7_EndOfStreamOnlyWhenClosed ==
    \A h \in Handles : handles[h].got = "end_of_stream" => channel_closed

\* C8: once the stream socket is closed and the listener task has ended, a
\* call of next on a live handle eventually returns Ok(None).
C8_EndOfStreamAfterClose ==
    \A h \in 1..MaxSubscribes :
        (/\ h \in Handles
         /\ ~strOpen
         /\ ~strListenerAlive)
        ~> (h \in Handles /\ handles[h].got = "end_of_stream")

\* C9: the listener's broadcast never waits for a consumer: whenever a frame
\* has arrived the listener can take its turn, however far behind a receiver
\* is, and a consumer waiting in next with messages ahead of it can go on
\* whatever the other consumers do.
C9_BroadcastNeverWaits ==
    /\ (strListenerAlive /\ strSocket # << >>) =>
           ENABLED StreamStep(listen_for_stream_data_step)
    /\ \A h \in Handles :
           (/\ handles[h].state = "live"
            /\ handles[h].pc = "waiting"
            /\ handles[h].cursor < Len(bcast)) => ENABLED StreamStep(next_recv(h))

\* One consumer never called next and is a whole channel behind, the listener
\* has a further frame to broadcast, and the other consumer has received
\* every message so far.
C9_AbsentConsumer ==
    \E h, g \in Handles :
        /\ Len(bcast) - handles[g].cursor >= ChannelCapacity
        /\ handles[g].pc = "idle"
        /\ handles[g].got = "nothing"
        /\ handles[h].cursor = Len(bcast)
        /\ handles[h].got = "item"
        /\ strSocket # << >>

\* C10: a frame that fails to parse or carries no tag does not end
\* run_listener: the task ends only when the socket is closed and drained,
\* and a well-formed tagged response read afterwards (or at any time), whose
\* tag has an entry in the table, is set on the promise of that entry.
C10_ListenerSurvivesBadFrames ==
    [][ /\ (listenerAlive /\ ~listenerAlive') => (cmdSocket = << >> /\ ~cmdOpen)
        /\ (/\ listenerAlive
            /\ cmdSocket # << >>
            /\ cmdSocket' = Tail(cmdSocket)
            /\ Classified(process_message(Head(cmdSocket)))
            /\ process_message(Head(cmdSocket)).custom_tag \in DOMAIN promise_state_by_tag)
           => LET r == process_message(Head(cmdSocket))
                  p == promise_state_by_tag[r.custom_tag]
              IN  /\ promises'[p].kind = "Some"
                  /\ promises'[p].response = r
                  /\ r.custom_tag \notin DOMAIN promise_state_by_tag' ]_vars

\* A response was set on the promise of an awaiting caller after the listener
\* had skipped a frame.
C10_DeliveredAfterBadFrame ==
    \E c \in Callers, p \in DOMAIN promises :
        /\ promises[p].kind = "Some"
        /\ promises[p].after > 0
        /\ listenerAlive
        /\ caller[c].tag = TagOf(p)
        /\ caller[c].pc = "awaiting"

\* The fields of the JSON object a frame holds, none for any other frame.
FrameFields(frame) ==
    IF frame.ws = "message" /\ frame.text /\ frame.json /\ frame.value.object
    THEN frame.value.fields ELSE << >>

\* The listener reads a frame with status false whose customTag has an entry
\* in the table.
ReadsFailureFor(tag) ==
    /\ listenerAlive
    /\ cmdSocket # << >>
    /\ cmdSocket' = Tail(cmdSocket)
    /\ "status" \in DOMAIN FrameFields(Head(cmdSocket))
    /\ FrameFields(Head(cmdSocket))["status"] = "false"
    /\ "customTag" \in DOMAIN FrameFields(Head(cmdSocket))
    /\ FrameFields(Head(cmdSocket))["customTag"] = tag
    /\ tag \in DOMAIN promise_state_by_tag

C12_FulfilledAtMostOnce ==
    [][ /\ \A p \in DOMAIN promises :
              (promises'[p] # promises[p] /\ promises'[p].kind = "Some") =>
                 /\ promises[p] = NoResponse
                 /\ TagOf(p) \in DOMAIN promise_state_by_tag
                 /\ TagOf(p) \notin DOMAIN promise_state_by_tag'
        /\ \A t \in DOMAIN promise_state_by_tag' \ DOMAIN promise_state_by_tag :
              /\ t = TagOf(tag_maker')
              /\ tag_maker' = tag_maker + 1
        /\ (/\ listenerAlive
            /\ cmdSocket # << >>
            /\ cmdSocket' = Tail(cmdSocket)
            /\ Classified(process_message(Head(cmdSocket)))
            /\ process_message(Head(cmdSocket)).custom_tag \notin DOMAIN promise_state_by_tag)
           => promises' = promises
        /\ \A c \in Callers :
              (caller[c].pc = "done" /\ caller'[c].pc = "done") =>
                 caller'[c].result = caller[c].result ]_vars

\* A promise holds its response, its tag is out of the table, and the next
\* frame the listener reads is a second, different response to the same tag.
C12_SecondFrameForFulfilledTag ==
    \E p \in DOMAIN promises :
        /\ promises[p].kind = "Some"
        /\ TagOf(p) \notin DOMAIN promise_state_by_tag
        /\ listenerAlive
        /\ cmdSocket # << >>
        /\ Classified(process_message(Head(cmdSocket)))
        /\ process_message(Head(cmdSocket)).custom_tag = TagOf(p)
        /\ process_message(Head(cmdSocket)) # promises[p].response

\* The listener reads a classified frame that cannot be routed: it has no
\* customTag, or its customTag has no entry in the table.
ReadsUnroutable ==
    /\ listenerAlive
    /\ cmdSocket # << >>
    /\ cmdSocket' = Tail(cmdSocket)
    /\ Classified(process_message(Head(cmdSocket)))
    /\ \/ process_message(Head(cmdSocket)).custom_tag = NoTag
       \/ process_message(Head(cmdSocket)).custom_tag \notin DOMAIN promise_state_by_tag

\* C13: a classified frame with no customTag, or with a customTag that has no
\* entry in the table, leaves the table and every promise as they were, and
\* the listener stays in its loop.
C13_UnroutableDiscarded ==
    [][ ReadsUnroutable =>
           /\ promise_state_by_tag' = promise_state_by_tag
           /\ promises' = promises
           /\ caller' = caller
           /\ listenerAlive' ]_vars

\* With a request pending, the next frame the listener reads is a classified
\* frame that carries no tag or the tag of no request.
C13_UnroutableWhilePending ==
    /\ DOMAIN promise_state_by_tag # {}
    /\ listenerAlive
    /\ cmdSocket # << >>
    /\ Head(cmdSocket) \in UntaggedFrames \cup {SuccessFrame(<<"message_", 0>>, NoData)}
    /\ Classified(process_message(Head(cmdSocket)))

\* The number a tag was made of, 0 for no tag.
NumberOf(tag) == IF tag = NoTag THEN 0 ELSE tag[2]

\* C14: whoever calls send_command (a typed operation or the keepalive task)
\* and however the call ends, the tags are message_1, message_2, ...: each
\* call takes the tag that follows the last one issued, the first is
\* message_1, the requests written carry strictly increasing tags, the tags
\* the callers hold are distinct, and every tag in use was issued.
C14_TagsIncrease ==
    [][ /\ \A c \in Callers :
              (caller'[c].tag # caller[c].tag) =>
                 /\ caller'[c].tag = TagOf(tag_maker + 1)
                 /\ tag_maker' = tag_maker + 1
                 /\ \A d \in Callers : caller[d].tag # caller'[c].tag
                 /\ caller'[c].tag \notin DOMAIN promise_state_by_tag
                 /\ \A i \in DOMAIN sink : sink[i].customTag # caller'[c].tag
        /\ tag_maker' >= tag_maker
        /\ (tag_maker = 0 /\ tag_maker' # 0) =>
              \E c \in Callers : caller'[c].tag = <<"message_", 1>>
        /\ \A i, j \in DOMAIN sink' :
              i < j => NumberOf(sink'[i].customTag) < NumberOf(sink'[j].customTag)
        /\ \A t \in DOMAIN promise_state_by_tag' : NumberOf(t) \in 1..tag_maker' ]_vars

\* The keepalive task's send failed under message_1 and the typed operation
\* that followed was given message_2, which was written.
C14_TagAfterFailedSend ==
    /\ caller["ping"].pc = "failed"
    /\ caller["ping"].tag = <<"message_", 1>>
    /\ caller["u1"].tag = <<"message_", 2>>
    /\ caller["u1"].pc = "awaiting"
    /\ \E i \in DOMAIN sink : sink[i].customTag = <<"message_", 2>>

\* What the subscription of a request is for: the messages of its data
\* command and, for a symbol-scoped key <data_command>.<symbol>, of its symbol.
Wanted(request, msg) ==
    /\ msg.command = request.subscription_key[1]
    /\ Len(request.subscription_key) = 3 =>
          /\ msg.data.object
          /\ "symbol" \in DOMAIN msg.data.fields
          /\ msg.data.fields["symbol"] = request.subscription_key[3]

\* A call of next on handle h returns an item in this step.
ReturnsItem(h) ==
    /\ handles[h].pc = "waiting"
    /\ handles'[h].pc = "idle"
    /\ handles'[h].cursor # handles[h].cursor
    /\ handles'[h].got \in {"item", "decode_error"}

\* C15: successive calls of next on a handle return messages in the order of
\* their arrival on the socket: the broadcast only grows, at its end, by the
\* frame at the head of the socket; the view of a handle starts at the end of
\* the broadcast as it was when the view was made and only moves forward; the
\* message a call returns is the one the view has just passed, and it is one
\* the subscription is for; a message the view passes without returning it is
\* not.
C15_ArrivalOrderFiltered ==
    [][ /\ \/ bcast' = bcast
           \/ /\ strSocket # << >>
              /\ Head(strSocket).json
              /\ bcast' = Append(bcast, Head(strSocket).message)
        /\ (subCall.pc = "idle" /\ subCall'.pc = "sending") => subCall'.cursor = Len(bcast)
        /\ \A h \in Handles' \ Handles : handles'[h].cursor = subCall.cursor
        /\ \A h \in Handles :
              /\ handles'[h].cursor >= handles[h].cursor
              /\ handles'[h].cursor <= Len(bcast)
              /\ ReturnsItem(h) =>
                    /\ handles'[h].cursor = handles[h].cursor + 1
                    /\ Wanted(handles[h].request, bcast[handles'[h].cursor])
              /\ (/\ handles'[h].cursor = handles[h].cursor + 1
                  /\ ~ReturnsItem(h)) =>
                    ~Wanted(handles[h].request, bcast[handles'[h].cursor]) ]_vars

\* A call of next passed a message of another subscription and returned the
\* message that arrived after it.
C15_ReturnedAfterSkipping ==
    \E h \in Handles :
        /\ handles[h].got = "item"
        /\ handles[h].pc = "idle"
        /\ handles[h].cursor = 2
        /\ ~Wanted(handles[h].request, bcast[1])
        /\ Wanted(handles[h].request, bcast[2])

\* The count kept under key k.
RefCount(table, k) == entry_or_default(table, k)

\* The unsubscribe task of handle h takes a step of StreamManager::unsubscribe.
UnsubscribeStepOf(h) ==
    /\ handles[h].state \in {"dropped", "unsubscribing"}
    /\ handles'[h].state # handles[h].state

\* C16: subscriptions scoped by symbol are independent.  Two symbols give two
\* keys "<data_command>.<symbol>"; whatever the unsubscribe task of a dropped
\* handle does, the count under every other key stays as it was and the only
\* frame it writes is the unsubscribe frame of its own key, written when the
\* count of that key has reached 0; and a message a handle returns carries
\* the symbol of the handle.
C16_SymbolsIndependent ==
    [][ /\ \A s1, s2 \in Symbols :
              s1 # s2 => subscribe_candles(s1).subscription_key
                            # subscribe_candles(s2).subscription_key
        /\ \A h \in Handles :
              LET key == handles[h].request.subscription_key
              IN  /\ UnsubscribeStepOf(h) =>
                        /\ \A k \in (DOMAIN subscriptions \cup DOMAIN subscriptions') \ {key} :
                              RefCount(subscriptions', k) = RefCount(subscriptions, k)
                        /\ \/ strSink' = strSink
                           \/ /\ RefCount(subscriptions', key) = 0
                              /\ strSink' = Append(strSink,
                                    [command |-> handles[h].request.unsubscribe_command,
                                     key |-> key])
                  /\ ReturnsItem(h) =>
                        /\ key = <<handles[h].request.data_command, ".", key[Len(key)]>>
                        /\ bcast[handles'[h].cursor].data.fields["symbol"] = key[Len(key)] ]_vars

\* The last handle of one symbol was dropped and its unsubscribe frame
\* written, while a handle of another symbol is still counted and has
\* returned a candle.
C16_OneSymbolUnsubscribed ==
    \E a, b \in Handles :
        /\ handles[a].state = "unsubscribed"
        /\ handles[b].state = "live"
        /\ handles[a].request.subscription_key # handles[b].request.subscription_key
        /\ RefCount(subscriptions, handles[a].request.subscription_key) = 0
        /\ RefCount(subscriptions, handles[b].request.subscription_key) = 1
        /\ handles[b].got = "item"

\* Handle h is dropped in this step.
Dropped(h) == handles[h].state = "live" /\ handles'[h].state = "dropped"

\* C17: dropping a handle never waits for the lock of the subscription table.
\* A handle its owner holds can be dropped whoever holds the lock; the drop
\* itself leaves the lock, the counts and the sink as they are; the count is
\* decremented in a later step, by the spawned task, once it has the lock.
C17_DropNeverBlocks ==
    [][ \A h \in Handles :
          /\ (handles[h].state = "live" /\ handles[h].pc = "idle") =>
                ENABLED StreamStep(drop_DataStream(h))
          /\ Dropped(h) => /\ stateLock' = stateLock
                           /\ subscriptions' = subscriptions
                           /\ strSink' = strSink
          /\ (handles[h].state = "dropped" /\ handles'[h].state # "dropped") =>
                /\ stateLock = Unlocked
                /\ handles'[h].state \in {"unsubscribing", "released"} ]_vars

\* A handle is dropped and its count not yet decremented, while another task
\* holds the lock of the subscription table.
C17_DroppedWhileLocked ==
    \E h \in Handles :
        /\ handles[h].state = "dropped"
        /\ stateLock # Unlocked
        /\ RefCount(subscriptions, handles[h].request.subscription_key) > 0

\* The outcome of the typed request of caller c is the one its cause calls
\* for: an error of send for a request that could not be serialized or
\* written; for a request that was answered, the decoded payload (or the
\* default) of a success, DeserializationFailed for a success whose payload
\* is of the wrong shape, CommandFailed with the error response for a failure.
OutcomeMatchesCause(c) ==
    LET outcome == typed_outcome(c)
        result == caller[c].result
    IN  /\ outcome.kind \in {"Pending", "Ok", "CommandFailed", "CannotSendCommand",
                             "SerializationFailed", "DeserializationFailed"}
        /\ outcome.kind = "Pending" <=> caller[c].pc \in {"idle", "sending", "awaiting"}
        /\ caller[c].pc = "failed" =>
              /\ outcome.kind = "SerializationFailed" <=> result.kind = "SerializationError"
              /\ outcome.kind = "CannotSendCommand" <=> result.kind = "CannotSendRequest"
        /\ caller[c].pc = "done" =>
              /\ result.custom_tag = caller[c].tag
              /\ outcome.kind = "CommandFailed" <=> ~result.status
              /\ outcome.kind = "CommandFailed" => outcome.error = result
              /\ outcome.kind = "DeserializationFailed" <=>
                    (result.status /\ result.return_data = Undecodable(c))
              /\ outcome.kind = "Ok" <=>
                    (result.status /\ result.return_data \in {NoData, PayloadOf(c)})
              /\ (result.status /\ result.return_data = PayloadOf(c)) =>
                    outcome.value = <<"decoded", c>>

EmptySuccess(c) ==
    /\ caller[c].pc = "done"
    /\ caller[c].result.kind = "Ok"
    /\ caller[c].result.custom_tag = caller[c].tag
    /\ caller[c].result.return_data = NoData

\* C19: a typed request answered by a success that carries no returnData
\* returns Ok with the default value of the declared response type.
C19_DefaultOnEmptySuccess ==
    \A c \in Callers :
        EmptySuccess(c) => typed_outcome(c) = [kind |-> "Ok", value |-> Default]

\* A request was written, answered by a success without returnData, and has
\* returned.
C19_EmptySuccessReturned ==
    \E c \in Callers :
        /\ EmptySuccess(c)
        /\ \E i \in DOMAIN sink : sink[i].customTag = caller[c].tag
        /\ typed_outcome(c).kind = "Ok"

\* A call of next on handle h returns a decode error in this step.
ReturnsDecodeError(h) ==
    /\ handles[h].pc = "waiting"
    /\ handles'[h].pc = "idle"
    /\ handles'[h].cursor # handles[h].cursor
    /\ handles'[h].got = "decode_error"

\* C20: a message that passes the filter of a handle and cannot be decoded
\* makes that one call of next return an error.  The handle stays as it was
\* but for its view, which has passed the message: the count of its key and
\* the sink are unchanged and the channel is open; next can be called again,
\* and a call made after the error returns the next well-formed message of
\* the subscription.
C20_DecodeErrorPerItem ==
    [][ \A h \in Handles :
          /\ ReturnsDecodeError(h) =>
                /\ Wanted(handles[h].request, bcast[handles'[h].cursor])
                /\ ~decodes(handles[h].request, bcast[handles'[h].cursor])
                /\ handles'[h].state = "live"
                /\ handles'[h].cursor = handles[h].cursor + 1
                /\ subscriptions' = subscriptions
                /\ strSink' = strSink
                /\ ~channel_closed'
          /\ (handles[h].got = "decode_error" /\ handles[h].pc = "idle") =>
                ENABLED StreamStep(next_call(h))
          /\ (/\ handles[h].got = "decode_error"
              /\ handles[h].pc = "waiting"
              /\ handles'[h] # handles[h]
              /\ Wanted(handles[h].request, bcast[handles[h].cursor + 1])
              /\ decodes(handles[h].request, bcast[handles[h].cursor + 1])) =>
                /\ handles'[h].got = "item"
                /\ handles'[h].pc = "idle" ]_vars

\* A call of next returned a decode error for the first message, and the
\* call after it returned the well-formed message that followed.
C20_ItemAfterDecodeError ==
    \E h \in Handles :
        /\ handles[h].state = "live"
        /\ handles[h].got = "item"
        /\ handles[h].pc = "idle"
        /\ handles[h].cursor = 2
        /\ Wanted(handles[h].request, bcast[1])
        /\ ~decodes(handles[h].request, bcast[1])
        /\ Wanted(handles[h].request, bcast[2])
        /\ decodes(handles[h].request, bcast[2])

\* The ping frames written so far on the command socket, and on the stream
\* socket.
CommandPings == SelectSeq(sink, LAMBDA f : f.arguments = PayloadOf("ping"))
StreamPings == SelectSeq(strSink, LAMBDA f : f.command = "ping")

\* C21: the drop of the client ends both keepalive loops.  The drop aborts the
\* two tasks and writes nothing; from then on no ping frame is written on the
\* command socket nor on the stream socket, and no ping is begun.
C21_NoPingAfterDrop ==
    [][ /\ (clientAlive /\ ~clientAlive') =>
              /\ caller'["ping"].pc = "aborted"
              /\ pingPc' = "aborted"
              /\ ~connection_locked'
              /\ stateLock' # HeldBy("ping", 0)
        /\ ~clientAlive' =>
              /\ CommandPings' = CommandPings
              /\ StreamPings' = StreamPings
              /\ tag_maker' = tag_maker
              /\ pings' = pings ]_vars

\* The client was dropped after each loop had written a ping, while the
\* sockets were open and another ping of each loop was still to come.
C21_DroppedBetweenPings ==
    /\ ~clientAlive
    /\ Len(CommandPings) = 1
    /\ Len(StreamPings) = 1
    /\ cmdOpen
    /\ strOpen
    /\ tag_maker < MaxTag
    /\ pings < MaxKeepalive

\* The ping of the command loop has just failed: its write failed, or it was
\* answered by an error response.
CommandPingFailed ==
    \/ caller["ping"].pc = "failed"
    \/ caller["ping"].pc = "done" /\ caller["ping"].result.kind = "OperationFailed"

\* C22: a failed ping neither stops a keepalive loop nor reaches anyone else.
\* After a ping of the command loop whose write failed or whose answer is an
\* error, the loop sends its next ping as soon as the connection is free;
\* after a stream ping whose write failed the loop has released the lock and
\* sleeps, and sends its next ping as soon as the lock is free.  No caller
\* but the loop, no handle and no count is touched by the failure.
C22_FailedPingNotEscalated ==
    [][ /\ (/\ CommandPingFailed
             /\ ~connection_locked
             /\ tag_maker < MaxTag) => ENABLED CmdStep(spawn_ping_begin)
        /\ (~CommandPingFailed /\ CommandPingFailed') =>
              /\ caller'["u1"] = caller["u1"]
              /\ listenerAlive' = listenerAlive
              /\ clientAlive'
        /\ (pingPc = "sending" /\ pingPc' # "sending" /\ clientAlive' /\ strSink' = strSink) =>
              /\ pings' = pings + 1
              /\ pingPc' = "sleeping"
              /\ stateLock' = Unlocked
              /\ <<subscriptions, handles>>' = <<subscriptions, handles>>
        /\ (/\ clientAlive
             /\ pingPc # "sending"
             /\ stateLock = Unlocked
             /\ pings < MaxKeepalive) => ENABLED StreamStep(stream_ping_begin(MaxKeepalive))
      ]_vars

\* On the command channel the first ping failed to be written and the second
\* one was written; the stream loop has made two turns, one of which failed.
C22_PingAfterFailedPing ==
    /\ Len(CommandPings) = 1
    /\ CommandPings[1].customTag = TagOf(2)
    /\ Len(StreamPings) = 1
    /\ pings = 2

\* The boolean a filter stands for, on a message.
RECURSIVE Matches(_, _)
Matches(filter, msg) ==
    CASE filter.op = "Always" -> TRUE
      [] filter.op = "Never" -> FALSE
      [] filter.op = "Command" -> msg.command = filter.cmd
      [] filter.op = "FieldValue" ->
            /\ msg.data.object
            /\ filter.name \in DOMAIN msg.data.fields
            /\ msg.data.fields[filter.name] = filter.value
      [] filter.op = "All" -> \A i \in 1..Len(filter.ops) : Matches(filter.ops[i], msg)
      [] filter.op = "Any" -> \E i \in 1..Len(filter.ops) : Matches(filter.ops[i], msg)

\* C23: test_message returns, for every filter and message, the boolean the
\* filter stands for: Always true, Never false, Command the equality of the
\* commands, FieldValue the presence of the field with that value in data
\* that is an object, All the conjunction (true of the empty list) and Any
\* the disjunction (false of the empty list).
C23_FilterSemantics ==
    input[1] = "test_message" =>
        /\ output = Matches(input[2], input[3])
        /\ input[2] = All(<< >>) => output = TRUE
        /\ input[2] = AnyOf(<< >>) => output = FALSE

\* test_message was called with a list that holds a list: all of the command
\* and any of the empty list and the symbol, on a candle of another symbol.
C23_NestedListRejected ==
    /\ input[1] = "test_message"
    /\ input[2] = All(<<Command("candle"), AnyOf(<<FieldValue("symbol", "EURUSD")>>)>>)
    /\ input[3] = CandleMessage("GBPUSD")
    /\ output = FALSE

\* The frame process_message was called with is a text frame that holds a
\* JSON object, and the fields of that object.
IsObjectFrame ==
    /\ input[1] = "process_message"
    /\ input[2].ws = "message"
    /\ input[2].text
    /\ input[2].json
    /\ input[2].value.object
FieldsOfInput == input[2].value.fields
StatusOfInput == IF "status" \in DOMAIN FieldsOfInput THEN FieldsOfInput["status"] ELSE "absent"
TagIsString == ~("customTag" \in DOMAIN FieldsOfInput /\ FieldsOfInput["customTag"] = NotAString)

C25_ParseOfRender ==
    input[1] = "from_str_of_display" => output = [ok |-> TRUE, code |-> input[2]]

\* The strings of the error codes: two letters and three digits, the number
\* one of a variant, one of BE020..BE037 and BE099, or any after SE.
RecognisedCode(str) ==
    \/ IsLiteral(str, <<"B", "E">>, NumbersBE \cup NumbersOther)
    \/ IsLiteral(str, <<"E", "X">>, NumbersEX)
    \/ IsLiteral(str, <<"S", "E">>, 0..999)

\* C26: from_str accepts the strings of the error codes and no other, and the
\* code it gives is written by Display as the string that was read.
C26_RenderOfParse ==
    input[1] = "from_str" =>
        /\ output.ok <=> RecognisedCode(input[2])
        /\ output.ok => Display(output.code) = input[2]

\* C27: from_str returns UnsupportedErrorCode, with the string, for every
\* string that is not the string of an error code.
C27_UnrecognisedRejected ==
    (input[1] = "from_str" /\ ~RecognisedCode(input[2])) =>
        output = UnsupportedErrorCode(input[2])

\* The argument values prepare_arguments accepts, as the claim lists them.
AbsentNullOrObject(arguments) == arguments \in {None, Some("Null"), Some("Object")}

\* C28: a stream subscribe or unsubscribe whose arguments are neither absent,
\* null nor a JSON object fails with InvalidArgumentsType before anything is
\* written to the stream socket: the subscribe call returns the error at once
\* and leaves the counts and the handles as they were, the unsubscribe task
\* ends without a frame, and every frame that reaches the sink belongs to a
\* call whose arguments were accepted.
C28_InvalidArgumentsNotWritten ==
    [][ /\ subCalls' = subCalls + 1 =>
            IF AbsentNullOrObject(subCall'.request.subscribe_arguments)
            THEN subCall'.pc = "sending"
            ELSE /\ subCall'.pc = "idle"
                 /\ subCall'.returned = CannotSendStreamCommand("InvalidArgumentsType")
                 /\ strSink' = strSink
                 /\ subscriptions' = subscriptions
                 /\ handles' = handles
                 /\ stateLock' = Unlocked
        /\ \A h \in Handles :
              ( /\ handles[h].state = "dropped"
                /\ handles'[h].state # "dropped"
                /\ ~AbsentNullOrObject(handles[h].request.unsubscribe_arguments) )
              => /\ strSink' = strSink
                 /\ stateLock' = Unlocked
                 /\ handles'[h].state \in {"released", "unsubscribe_failed"}
        /\ strSink' # strSink =>
              \/ /\ subCall.pc = "sending"
                 /\ AbsentNullOrObject(subCall.request.subscribe_arguments)
              \/ \E h \in Handles :
                    /\ handles[h].state = "unsubscribing"
                    /\ handles'[h].state = "unsubscribed"
                    /\ AbsentNullOrObject(handles[h].request.unsubscribe_arguments)
      ]_vars

\* A subscribe call was refused for its arguments while the key had one
\* subscriber, whose handle was then dropped and whose unsubscribe was
\* refused for its arguments at count 0: only the first subscribe frame was
\* ever written.
C28_BothRefused ==
    /\ subCall.pc = "idle"
    /\ "returned" \in DOMAIN subCall
    /\ ~AbsentNullOrObject(subCall.request.subscribe_arguments)
    /\ \E h \in Handles :
          /\ handles[h].state = "unsubscribe_failed"
          /\ ~AbsentNullOrObject(handles[h].request.unsubscribe_arguments)
          /\ subscriptions[handles[h].request.subscription_key] = 0
    /\ Len(strSink) = 1

\* C29: no task is suspended on a write to the stream socket while it holds
\* the lock of the subscription table: whenever the subscribe call, an
\* unsubscribe task or the stream ping task is at its socket write, the lock
\* is free.
C29_NoLockAcrossWrite ==
    ( \/ subCall.pc = "sending"
      \/ pingPc = "sending"
      \/ \E h \in Handles : handles[h].state = "unsubscribing" )
    => stateLock = Unlocked

\* The subscribe call is suspended on its socket write and holds the lock.
C29_SubscribeWritesUnderLock ==
    /\ subCall.pc = "sending"
    /\ stateLock = HeldBy("subscribe", 0)

\* The pings written on the command socket whose response has not arrived:
\* their tag is still in the table of the connection.
OutstandingPings ==
    {i \in DOMAIN sink : /\ sink[i].arguments = PayloadOf("ping")
                         /\ sink[i].customTag \in DOMAIN promise_state_by_tag}

\* C30: the keepalive loop of the command channel has at most one ping
\* outstanding.  A ping frame is written only when no written ping is
\* unanswered, and while the loop awaits the response of a ping it begins no
\* other: a response that never arrives stops the pings.
C30_OnePingOutstanding ==
    [][ /\ Cardinality(OutstandingPings') <= 1
        /\ Len(CommandPings') > Len(CommandPings) => OutstandingPings = {}
        /\ caller["ping"].pc = "awaiting" => ~ENABLED CmdStep(spawn_ping_begin)
        /\ (caller["ping"].pc = "awaiting" /\ promises[PromiseOf("ping")] = NoResponse)
              => CommandPings' = CommandPings ]_vars

\* The loop awaits the response of its first ping, which has not arrived,
\* while nothing else keeps it from a second ping: the connection is not
\* locked, the socket is open, the client alive and a tag left.
C30_AwaitingUnansweredPing ==
    /\ caller["ping"].pc = "awaiting"
    /\ Cardinality(OutstandingPings) = 1
    /\ promises[PromiseOf("ping")] = NoResponse
    /\ ~connection_locked
    /\ cmdOpen
    /\ clientAlive
    /\ tag_maker < MaxTag

\* C31: when the unsubscribe frame of a dropped handle cannot be sent, the
\* failure is only logged.  The failing step writes nothing and leaves the
\* count of the key at 0, the task of that handle is over, and a task that
\* is over never acts again: the count is not restored and no frame is
\* written for that drop later.
C31_FailedUnsubscribeOnlyLogged ==
    [][ \A h \in Handles :
          LET key == handles[h].request.subscription_key IN
          /\ ( /\ handles[h].state = "unsubscribing"
               /\ handles'[h].state # "unsubscribing"
               /\ strSink' = strSink )
             => /\ handles'[h].state = "unsubscribe_failed"
                /\ subscriptions[key] = 0
                /\ subscriptions' = subscriptions
                /\ stateLock' = Unlocked
          /\ handles[h].state = "unsubscribe_failed"
             => /\ handles'[h] = handles[h]
                /\ stateLock' # HeldBy("unsubscribe", h)
      ]_vars

\* The unsubscribe of a dropped handle failed on a socket that was open, and
\* the key was subscribed again afterwards: the only frames ever written for
\* the key are the two subscribe frames.
C31_FailedThenSubscribedAgain ==
    \E h \in Handles :
        LET key == handles[h].request.subscription_key IN
        /\ handles[h].state = "unsubscribe_failed"
        /\ strOpen
        /\ subscriptions[key] = 1
        /\ Len(FramesOf(key)) = 2
        /\ \A i \in 1..2 : ~IsUnsubscribe(FramesOf(key)[i])

\* C32: the set of keys of the subscription table never shrinks.  No step
\* takes a key out of the table, so a key that was subscribed keeps its entry
\* after its count has come back to 0.
C32_KeysNeverRemoved ==
    [][ DOMAIN subscriptions \subseteq DOMAIN subscriptions' ]_vars

\* Every handle of a key was dropped and accounted for: the key is in the
\* table with count 0, next to a key that still has a subscriber.
C32_ZeroEntryKept ==
    \E k \in DOMAIN subscriptions :
        /\ subscriptions[k] = 0
        /\ HandlesOf(k) # {}
        /\ \A h \in HandlesOf(k) : Terminated(h)
        /\ \E j \in DOMAIN subscriptions : subscriptions[j] = 1

\* The subscribe frames written so far.
SubscribeFrames ==
    SelectSeq(strSink, LAMBDA f : f.command \in {r.subscribe_command : r \in StreamRequests})

\* C33: when the subscribe frame cannot be sent, subscribe returns the error:
\* the step writes nothing, leaves the table as it was (the count of the key
\* unchanged, no entry made) and returns no handle.  Every handle belongs to
\* a subscribe frame that was written, so no unsubscribe task exists for the
\* failed call.
C33_FailedSubscribeLeavesNothing ==
    [][ /\ ( /\ subCall.pc = "sending"
             /\ subCall'.pc = "idle"
             /\ strSink' = strSink )
           => /\ subCall'.returned = CannotSendStreamCommand("CannotSend")
              /\ subscriptions' = subscriptions
              /\ handles' = handles
              /\ stateLock' = Unlocked
        /\ Len(handles') = Len(SubscribeFrames') ]_vars

\* A subscribe call for a key failed at its write while the key had one
\* subscriber: the count is still 1 and the one handle is the first call's.
C33_FailedSecondSubscribe ==
    /\ subCall.pc = "idle"
    /\ "returned" \in DOMAIN subCall
    /\ subCalls = 2
    /\ Len(handles) = 1
    /\ handles[1].state = "live"
    /\ handles[1].request = subCall.request
    /\ subscriptions[subCall.request.subscription_key] = 1

\* C34: the receiver of a handle is made before its subscribe frame is
\* written.  The handle that subscribe returns stands at or before the end
\* of the broadcast as it was when the frame was written, its receiver moves
\* one message at a time, and a message that passes its filter is returned
\* by the call of next that takes it: no matching message broadcast after
\* the frame was written is missed.
C34_NothingMissedAfterSubscribe ==
    [][ /\ Len(handles') > Len(handles) =>
              handles'[Len(handles')].cursor <= handles'[Len(handles')].written_at
        /\ \A h \in Handles :
              handles'[h].cursor # handles[h].cursor =>
                 /\ handles'[h].cursor = handles[h].cursor + 1
                 /\ test_message(handles[h].request.filter, bcast[handles'[h].cursor])
                       => /\ handles'[h].got \in {"item", "decode_error"}
                          /\ handles'[h].pc = "idle"
      ]_vars

\* A message was broadcast after the subscribe frame of a handle was written
\* and before subscribe returned, and the handle has received it.
C34_ReceivedPushBeforeReturn ==
    \E h \in Handles :
        /\ handles[h].written_at < handles[h].returned_at
        /\ handles[h].cursor = handles[h].written_at + 1
        /\ handles[h].got = "item"
        /\ test_message(handles[h].request.filter, bcast[handles[h].cursor])

\* The last control frame written for a key.
LastFrameOf(key) == FramesOf(key)[Len(FramesOf(key))]

\* No unsubscribe task of the key is between its decrement and its write.
Processed(key) == \A h \in HandlesOf(key) : handles[h].state # "unsubscribing"

\* No unsubscribe frame has failed to be sent.  (A subscribe frame that
\* fails leaves neither a frame nor a count, and is allowed.)
EveryUnsubscribeSent == \A h \in Handles : handles[h].state # "unsubscribe_failed"

\* C35: every send succeeding, the last control frame written for a key
\* agrees with its count once the drops are processed: a key in the table has
\* had a frame written; with a count above 0 the last one is a subscribe
\* frame, with the count at 0 it is an unsubscribe frame.
C35_LastFrameAgreesWithCount ==
    \A k \in DOMAIN subscriptions :
        (EveryUnsubscribeSent /\ Processed(k)) =>
            /\ FramesOf(k) # << >>
            /\ subscriptions[k] > 0 => ~IsUnsubscribe(LastFrameOf(k))
            /\ subscriptions[k] = 0 => IsUnsubscribe(LastFrameOf(k))

\* Two handles of one key were made and one of them was dropped and
\* processed: its task wrote nothing, the count is 1 and the last frame of
\* the key is the second subscribe frame.
C35_OneOfTwoProcessed ==
    \E k \in DOMAIN subscriptions :
        /\ EveryUnsubscribeSent
        /\ subscriptions[k] = 1
        /\ Len(FramesOf(k)) = 2
        /\ \E h, g \in HandlesOf(k) :
              /\ handles[h].state = "released"
              /\ handles[g].state = "live"

\* The tags the tag maker has issued so far.
IssuedTags == {TagOf(n) : n \in 1..tag_maker}

\* The listener takes a frame in this step, and classifies it under `tag`.
ReaderProcesses(tag) ==
    /\ cmdSocket # << >>
    /\ cmdSocket' = Tail(cmdSocket)
    /\ Classified(process_message(Head(cmdSocket)))
    /\ process_message(Head(cmdSocket)).custom_tag = tag

\* C36: the keys of the correlation table are tags that were issued, and a
\* tag is in the table exactly from its registration by send_command to the
\* step in which the listener processes a classified frame that carries it:
\* a tag comes into the table only as the tag just issued to a call that goes
\* on to its write, every such call registers its tag, a tag leaves the table
\* only in a step of the listener on a classified frame with that tag, and
\* every such step takes the tag out.
C36_TableIsRegisteredUnanswered ==
    [][ /\ DOMAIN promise_state_by_tag' \subseteq IssuedTags'
        /\ \A t \in DOMAIN promise_state_by_tag' \ DOMAIN promise_state_by_tag :
              /\ tag_maker' = tag_maker + 1
              /\ t = TagOf(tag_maker')
              /\ \E c \in Callers : caller'[c].pc = "sending" /\ caller'[c].tag = t
        /\ \A c \in Callers :
              (caller[c].pc # "sending" /\ caller'[c].pc = "sending")
                 => caller'[c].tag \in DOMAIN promise_state_by_tag'
        /\ \A t \in DOMAIN promise_state_by_tag \ DOMAIN promise_state_by_tag' :
              ReaderProcesses(t)
        /\ \A t \in DOMAIN promise_state_by_tag :
              ReaderProcesses(t) => t \notin DOMAIN promise_state_by_tag'
      ]_vars

\* Two tags were issued and registered: the listener has processed the
\* response of one, which is out of the table; the write of the other failed
\* and no frame carries it, it is still in the table.
C36_OneAnsweredOneLeft ==
    \E c, d \in Callers :
        /\ caller[c].pc = "done"
        /\ caller[c].tag \in IssuedTags \ DOMAIN promise_state_by_tag
        /\ caller[d].pc = "failed"
        /\ caller[d].tag \in DOMAIN promise_state_by_tag

\* The frame is a JSON object with "status": false whose errorCode is missing
\* or is not a code XtbErrorCode::from_str knows.
FailureWithoutSupportedCode(frame) ==
    /\ frame.ws = "message"
    /\ frame.text
    /\ frame.json
    /\ frame.value.object
    /\ "status" \in DOMAIN frame.value.fields
    /\ frame.value.fields["status"] = "false"
    /\ \/ "errorCode" \notin DOMAIN frame.value.fields
       \/ ~SupportedErrorCode(frame.value.fields["errorCode"])

\* C37: a status:false frame whose errorCode is missing or not supported
\* fails deserialization in the listener and is dropped.  The step that takes
\* it leaves the correlation table and every promise as they were (the
\* promise registered under the frame's customTag stays pending), counts the
\* frame as skipped, and the listener goes on.
C37_UnsupportedFailureDropped ==
    [][ ( /\ cmdSocket # << >>
          /\ cmdSocket' = Tail(cmdSocket)
          /\ FailureWithoutSupportedCode(Head(cmdSocket)) )
        => /\ process_message(Head(cmdSocket)) = Failed("DeserializationError")
           /\ promise_state_by_tag' = promise_state_by_tag
           /\ promises' = promises
           /\ caller' = caller
           /\ skipped' = skipped + 1
           /\ listenerAlive' ]_vars

\* The listener is about to take a failure frame with an unknown errorCode
\* that carries the tag of a request whose caller awaits its promise.
C37_UnknownCodeForPendingTag ==
    /\ listenerAlive
    /\ cmdSocket # << >>
    /\ Head(cmdSocket) = FailureFrame(TagOf(1), "XX000")
    /\ TagOf(1) \in DOMAIN promise_state_by_tag
    /\ promises[promise_state_by_tag[TagOf(1)]] = NoResponse
    /\ \E c \in Callers : caller[c].pc = "awaiting" /\ caller[c].tag = TagOf(1)

\* The stream ping task takes a step: it begins a turn, ends one, or is
\* aborted.
StreamPingStep == pingPc' # pingPc \/ pings' # pings \/ StreamPings' # StreamPings

\* C38: the stream keepalive ping never changes the subscription table.  A
\* step of the ping task, among subscribe calls and unsubscribe tasks, leaves
\* the count of every key as it was and adds no key; no key of the table is
\* the ping's.
C38_PingLeavesTable ==
    [][ /\ StreamPingStep => subscriptions' = subscriptions
        /\ <<"ping">> \notin DOMAIN subscriptions' ]_vars

\* A stream ping was written while a key had a subscriber and another key,
\* whose handle was dropped and processed, stood at 0.
C38_PingedBetweenSubscriptions ==
    /\ Len(StreamPings) = 1
    /\ \E k, j \in DOMAIN subscriptions :
          /\ subscriptions[k] = 1
          /\ subscriptions[j] = 0
    /\ strSink[Len(strSink)].command = "ping"

\* The lock a task is about to take, and whether it has to wait for it.
WaitsFor(t) ==
    CASE taskAt[t].pc = "lock_connection" -> "connection"
      [] taskAt[t].pc = "lock_table" -> "table"
      [] taskAt[t].pc = "lock_state" -> StateLock(taskAt[t].of)
      [] OTHER -> "nothing"
Blocked(t) == WaitsFor(t) # "nothing" /\ held[WaitsFor(t)] # "free"

\* Task a waits for a lock that task b holds.
WaitsOn(a, b) == Blocked(a) /\ held[WaitsFor(a)] = b

\* Tasks that wait on one another, in a ring of one, two or three.
WaitRing ==
    \/ \E a \in Tasks : WaitsOn(a, a)
    \/ \E a, b \in Tasks : a # b /\ WaitsOn(a, b) /\ WaitsOn(b, a)
    \/ \E a, b, c \in Tasks :
          /\ a # b /\ b # c /\ a # c
          /\ WaitsOn(a, b) /\ WaitsOn(b, c) /\ WaitsOn(c, a)

\* C39: the command side is free of deadlock over its locks.  No tasks wait
\* on one another in a ring, and a task that waits for a lock never keeps
\* every task from moving; the keepalive task holds the connection lock only
\* from its lock() to the return of send_command, not while it awaits its
\* promise nor between two turns, so the owner of the client takes the
\* connection lock as soon as no send is under way, a ping outstanding or
\* not.
C39_NoDeadlockOnLocks ==
    /\ ~WaitRing
    /\ (\E t \in Tasks : Blocked(t)) => ENABLED LockNext
    /\ taskAt["ping"].pc \in {"idle", "lock_connection", "awaiting"}
          => held["connection"] # "ping"
    /\ ( /\ taskAt["u1"].pc = "lock_connection"
         /\ taskAt["ping"].pc \in {"idle", "lock_connection", "awaiting"} )
          => ENABLED LockStep(lock_connection("u1"))

\* The owner of the client is inside send_command, with the connection
\* locked and waiting for the table, which the listener holds while it waits
\* for the promise state of the keepalive task, whose ping is outstanding.
C39_SendWhilePingOutstanding ==
    /\ taskAt["ping"].pc = "awaiting"
    /\ promiseAt["ping"] = "read"
    /\ held["connection"] = "u1"
    /\ taskAt["u1"].pc = "lock_table"
    /\ held["table"] = "reader"

\* The unsubscribe task of handle h runs StreamManager::unsubscribe in this
\* step, up to its write or to its end.
UnsubscribeRuns(h) == handles[h].state = "dropped" /\ handles'[h].state # "dropped"

\* C40: StreamManager::unsubscribe never runs for a key whose count is 0.
\* Every run belongs to a handle that a successful subscribe made, and finds
\* the count of the key of that handle at 1 or more: the `if *entry > 0` is
\* always taken, the count goes down by exactly one, and an unsubscribe frame
\* is written only by a task that took the count from 1 to 0.
C40_UnsubscribeFindsSubscriber ==
    [][ \A h \in Handles :
          LET key == handles[h].request.subscription_key IN
          /\ UnsubscribeRuns(h) =>
                /\ entry_or_default(subscriptions, key) >= 1
                /\ subscriptions'[key] = subscriptions[key] - 1
          /\ handles'[h].state = "unsubscribing" => subscriptions'[key] = 0
      ]_vars

\* Two handles of one key were dropped: the task of one found the count at 2
\* and is over, the task of the other found it at 1 and is at its write.
C40_LastOfTwoAtWrite ==
    \E h, g \in Handles :
        /\ h # g
        /\ handles[h].request.subscription_key = handles[g].request.subscription_key
        /\ handles[h].state = "released"
        /\ handles[g].state = "unsubscribing"
        /\ subscriptions[handles[g].request.subscription_key] = 0
        /\ stateLock = HeldBy("unsubscribe", g)

=========================================================================
